---------------------------- MODULE Spec2Model ----------------------------
(***************************************************************************)
(* A model of the lumi deployment driver: the progress tracker that is     *)
(* called back around every applied step (applyProgress), the apply        *)
(* command that drives a plan and persists the checkpoint, and the         *)
(* checkpoint persistence routines (saveEnv, backupEnv, deleteEnv) acting  *)
(* on a small file system.                                                 *)
(***************************************************************************)
EXTENDS Integers, Sequences, FiniteSets, TLC

VARIABLES
    fs,         \* file system: file -> content
    dirs,       \* the directories that exist
    curEnv,     \* the workspace settings' current environment
    diagOk,     \* Diag.Success(): no error diagnostic emitted so far
    pc,         \* position of the running command ("idle" when none runs)
    sv,         \* saveEnv's frame (file, b, caller)
    ret,        \* what the most recent saveEnv returned
    call,       \* history: inputs and pre-state of the most recent saveEnv call
    committed,  \* history: the last complete checkpoint of the environment
    run,        \* history: the unbroken run of successful saves so far
    faults,     \* history: whether a crash, a failed rename, a removeEnv happened
    ncmd,       \* number of commands started
    plan,       \* the plan of the running apply: its steps' operations
    ap,         \* apply's frame (options, step index, checkpoint, err)
    prog,       \* the applyProgress
    trace,      \* history: Before / provider call / After events of the apply
    saves,      \* history: the saveEnv invocations made by the running apply
    cb,         \* history: tallies of the After callbacks made so far
    rd,         \* what the most recent readEnv was given and returned
    olds,       \* the old properties of the resource inspected or rendered
    news,       \* its new properties
    diff,       \* what Diff(olds, news) returned, once called
    resp,       \* what a provider's InspectChange returned, once called
    buf,        \* what was printed into the buffer, once printed
    counts,     \* the operation counts handed to printSummary
    gen         \* the program generator: its program, its state, its output

vars == <<fs, dirs, curEnv, diagOk, pc, sv, ret, call, committed, run,
          faults, ncmd, plan, ap, prog, trace, saves, cb, rd,
          olds, news, diff, resp, buf, counts, gen>>

fsVars   == <<fs, dirs, curEnv, sv, ret, call, committed, run, faults>>
planVars == <<plan, ap, trace, saves>>

\* What the deployment commands (createEnv, saveEnv, removeEnv, apply) and
\* the progress callbacks leave alone.
otherVars == <<rd, olds, news, diff, resp, buf, counts, gen>>

\* What the pure functions (Diff, InspectChange, the printers) leave alone.
deployVars == <<fs, dirs, curEnv, diagOk, pc, sv, ret, call, committed, run,
                faults, ncmd, plan, ap, prog, trace, saves, cb>>

-----------------------------------------------------------------------------
(* Bounds of the model.                                                    *)

MaxPlanLen == 5     \* longest plan applied
MaxCalls   == 4     \* callbacks made on a free-standing applyProgress
MaxCmds    == 3     \* commands run against the file system
MaxSaves   == 1     \* saves made in the read specification
MaxCount   == 2     \* largest count of one operation in a summary

-----------------------------------------------------------------------------
(* Step operations and resource states.                                    *)

OpSame          == "same"
OpCreate        == "create"
OpUpdate        == "update"
OpDelete        == "delete"
OpReplaceCreate == "replace-create"
OpReplaceDelete == "replace-delete"

StepOps == <<OpSame, OpCreate, OpUpdate, OpDelete, OpReplaceCreate, OpReplaceDelete>>

StepOpSet == {StepOps[i] : i \in 1..Len(StepOps)}

StateOK      == "ok"
StateUnknown == "unknown"

States == {StateOK, StateUnknown}

\* The operations the plans of the model are built from.
PlanOps == {OpCreate, OpUpdate, OpReplaceCreate}

-----------------------------------------------------------------------------
(* Paths.  A path is its directory, its base name without extensions, and  *)
(* the extensions that follow, so that filepath.Ext and the string         *)
(* appends of the code (file + ext, file + ".bak") are computed.           *)

EnvName == "prod"
EnvDir  == ".lumi/env"
Cwd     == "."

EmptyPath == [dir |-> "", stem |-> "", exts |-> <<>>]
DashPath  == [dir |-> Cwd, stem |-> "-", exts |-> <<>>]
TxtPath   == [dir |-> Cwd, stem |-> "out", exts |-> <<".txt">>]

EnvPath(name) == [dir |-> EnvDir, stem |-> name, exts |-> <<".json">>]

Ext(file) == IF file.exts = <<>> THEN "" ELSE file.exts[Len(file.exts)]

AddExt(file, ext) ==
    IF ext = "" THEN file ELSE [file EXCEPT !.exts = Append(@, ext)]

Dir(file) == file.dir

Bak(file) == AddExt(file, ".bak")

Nil == "nil"

Marshalers == {".json", ".yaml"}

DefaultExt == ".json"

\* encoding.Detect(path): the marshaler of the path's extension, if any, and
\* the extension.  saveEnv appends the extension Detect returns to a path
\* that has none (file = file + ext): a path without an extension is
\* answered with the default marshaler and its extension.
Detect(file) ==
    LET ext == IF Ext(file) = "" THEN DefaultExt ELSE Ext(file)
    IN  [m |-> IF ext \in Marshalers THEN ext ELSE Nil, ext |-> ext]

\* The paths the commands of the model are given, and the files they can touch.
OutputPaths == {EmptyPath, DashPath, TxtPath}

\* An output path in a recognized format, for the apply command.
OutJson == [dir |-> Cwd, stem |-> "out", exts |-> <<".json">>]

ApplyOutputs == OutputPaths \cup {OutJson}

DashJson == AddExt(DashPath, DefaultExt)

Files == {EnvPath(EnvName), Bak(EnvPath(EnvName)), TxtPath, Bak(TxtPath),
          DashJson, Bak(DashJson), OutJson, Bak(OutJson)}

-----------------------------------------------------------------------------
(* Property values, snapshots and envfiles.                                *)

\* A property value: its discriminant, the text of a scalar, the elements
\* of an array, the map of an object.
PNull       == [t |-> "null",     s |-> "", arr |-> <<>>, obj |-> <<>>]
PBool(s)    == [t |-> "bool",     s |-> s,  arr |-> <<>>, obj |-> <<>>]
PNumber(s)  == [t |-> "number",   s |-> s,  arr |-> <<>>, obj |-> <<>>]
PString(s)  == [t |-> "string",   s |-> s,  arr |-> <<>>, obj |-> <<>>]
PResource(s) == [t |-> "resource", s |-> s,  arr |-> <<>>, obj |-> <<>>]
PArray(xs)  == [t |-> "array",    s |-> "", arr |-> xs,   obj |-> <<>>]
PObject(m)  == [t |-> "object",   s |-> "", arr |-> <<>>, obj |-> m]

NoProps == <<>>

Res(i, op, st) == [step |-> i, op |-> op, state |-> st, props |-> NoProps]

NilSnapshot == <<>>

\* The snapshot the k-th command of the file-system specification saves.
Snap(k) == <<Res(k, OpCreate, StateOK)>>

SerializeEnvfile(env, snap) == [env |-> env, latest |-> snap]

DeserializeEnvfile(envfile) == [env |-> envfile.env, snap |-> envfile.latest]

-----------------------------------------------------------------------------
(* The encoding of an envfile: a document of strings, numbers, nulls,      *)
(* arrays, and objects whose members are written in the order of their     *)
(* keys.                                                                   *)

JNull    == [k |-> "null",   s |-> "", xs |-> <<>>]
JStr(s)  == [k |-> "string", s |-> s,  xs |-> <<>>]
JNum(s)  == [k |-> "number", s |-> s,  xs |-> <<>>]
JArr(xs) == [k |-> "array",  s |-> "", xs |-> xs]
JObj(ms) == [k |-> "object", s |-> "", xs |-> ms]

Member(key, val) == [key |-> key, val |-> val]

Has(ms, key) == \E i \in 1..Len(ms) : ms[i].key = key

Get(ms, key) == ms[CHOOSE i \in 1..Len(ms) : ms[i].key = key].val

MemberKeys(ms) == {ms[i].key : i \in 1..Len(ms)}

\* The property keys of the model, in the order an encoder writes them.
KeyOrder == <<"a", "b", "name", "vpc">>

StablePropertyKeys(m) == SelectSeq(KeyOrder, LAMBDA key : key \in DOMAIN m)

RefTag == "#ref"

RECURSIVE SerializeProperty(_)
SerializeProperty(v) ==
    CASE v.t = "null"     -> JNull
      [] v.t = "number"   -> JNum(v.s)
      [] v.t = "string"   -> JStr(v.s)
      [] v.t = "resource" -> JObj(<<Member(RefTag, JStr(v.s))>>)
      [] v.t = "array"    ->
            JArr([i \in 1..Len(v.arr) |-> SerializeProperty(v.arr[i])])
      [] v.t = "object"   ->
            LET ks == StablePropertyKeys(v.obj)
            IN  JObj([i \in 1..Len(ks) |->
                        Member(ks[i], SerializeProperty(v.obj[ks[i]]))])

RECURSIVE DeserializeProperty(_)
DeserializeProperty(j) ==
    CASE j.k = "null"   -> PNull
      [] j.k = "number" -> PNumber(j.s)
      [] j.k = "string" -> PString(j.s)
      [] j.k = "array"  ->
            PArray([i \in 1..Len(j.xs) |-> DeserializeProperty(j.xs[i])])
      [] j.k = "object" ->
            IF MemberKeys(j.xs) = {RefTag}
            THEN PResource(Get(j.xs, RefTag).s)
            ELSE PObject([key \in MemberKeys(j.xs) |->
                            DeserializeProperty(Get(j.xs, key))])

\* The largest number the documents of the model hold.
MaxNum == 9

ParseInt(s) == CHOOSE i \in 0..MaxNum : ToString(i) = s

IsInt(s) == \E i \in 0..MaxNum : ToString(i) = s

MarshalResource(r) ==
    JObj(<<Member("op", JStr(r.op)),
           Member("properties", SerializeProperty(PObject(r.props))),
           Member("state", JStr(r.state)),
           Member("step", JNum(ToString(r.step)))>>)

\* m.Marshal(dep): the name, and the latest snapshot unless it is nil.
Marshal(dep) ==
    JObj(<<Member("name", JStr(dep.env))>> \o
         IF dep.latest = NilSnapshot THEN <<>>
         ELSE <<Member("latest", JObj(<<Member("resources",
                    JArr([i \in 1..Len(dep.latest) |->
                            MarshalResource(dep.latest[i])]))>>))>>)

NoData == JNull

Absent == [state |-> "absent", data |-> NoData]

Complete(b) == [state |-> "complete", data |-> b]

Partial(b) == [state |-> "partial", data |-> b]

\* The checkpoint an environment holds before the first command of the model.
OldData == Marshal(SerializeEnvfile(EnvName, NilSnapshot))

Exists(fsys, file) == file \in DOMAIN fsys /\ fsys[file].state # "absent"

-----------------------------------------------------------------------------
(* File-system primitives.                                                 *)

\* os.Rename(old, new): fails when old does not exist, or for a reason of
\* the environment's (ok = FALSE); replaces new otherwise.
Rename(fsys, old, new, ok) ==
    IF ~Exists(fsys, old) \/ ~ok \/ new \notin DOMAIN fsys
    THEN fsys
    ELSE [fsys EXCEPT ![new] = fsys[old], ![old] = Absent]

Renames(fsys, old, ok) == Exists(fsys, old) /\ ok

\* backupEnv leaving the file where it is.
backupEnv_noop(fsys, file, ok) == fsys

backupEnv(fsys, file, ok) == Rename(fsys, file, Bak(file), ok)

-----------------------------------------------------------------------------
(* saveEnv.  SaveEnvPre is the part of saveEnv that precedes any file      *)
(* system operation: resolving the path, detecting the format, encoding,   *)
(* and the existence check.  marshalOk is the encoder's outcome.           *)

ResolveFile(env, file0) ==
    LET file1 == IF file0 = EmptyPath THEN EnvPath(env) ELSE file0
    IN  IF Ext(file1) = "" THEN AddExt(file1, Detect(file1).ext) ELSE file1

\* saveEnv without its existence check.
SaveEnvPre_noExistCheck(env, snap, file0, existok, marshalOk, fsys) ==
    LET file1 == IF file0 = EmptyPath THEN EnvPath(env) ELSE file0
        file  == ResolveFile(env, file0)
    IN  IF Detect(file1).m = Nil
        THEN [ok |-> FALSE, file |-> file1, b |-> NoData]
        ELSE IF ~marshalOk
        THEN [ok |-> FALSE, file |-> file, b |-> NoData]
        ELSE [ok |-> TRUE, file |-> file, b |-> Marshal(SerializeEnvfile(env, snap))]

\* saveEnv going on to the file system with whatever the failed encoder left.
SaveEnvPre_noEncodeCheck(env, snap, file0, existok, marshalOk, fsys) ==
    LET file1 == IF file0 = EmptyPath THEN EnvPath(env) ELSE file0
        file  == ResolveFile(env, file0)
    IN  IF Detect(file1).m = Nil
        THEN [ok |-> FALSE, file |-> file1, b |-> NoData]
        ELSE IF ~existok /\ Exists(fsys, file)
        THEN [ok |-> FALSE, file |-> file, b |-> NoData]
        ELSE [ok |-> TRUE, file |-> file,
              b |-> IF marshalOk THEN Marshal(SerializeEnvfile(env, snap))
                   ELSE NoData]

\* saveEnv going on without a marshaler.
SaveEnvPre_noDetectCheck(env, snap, file0, existok, marshalOk, fsys) ==
    LET file == ResolveFile(env, file0)
    IN  IF ~marshalOk
        THEN [ok |-> FALSE, file |-> file, b |-> NoData]
        ELSE IF ~existok /\ Exists(fsys, file)
        THEN [ok |-> FALSE, file |-> file, b |-> NoData]
        ELSE [ok |-> TRUE, file |-> file, b |-> Marshal(SerializeEnvfile(env, snap))]

SaveEnvPre(env, snap, file0, existok, marshalOk, fsys) ==
    LET file1 == IF file0 = EmptyPath THEN EnvPath(env) ELSE file0
        file  == ResolveFile(env, file0)
    IN  IF Detect(file1).m = Nil
        THEN [ok |-> FALSE, file |-> file1, b |-> NoData]
        ELSE IF ~marshalOk
        THEN [ok |-> FALSE, file |-> file, b |-> NoData]
        ELSE IF ~existok /\ Exists(fsys, file)
        THEN [ok |-> FALSE, file |-> file, b |-> NoData]
        ELSE [ok |-> TRUE, file |-> file, b |-> Marshal(SerializeEnvfile(env, snap))]

NoFrame == [file |-> EmptyPath, b |-> NoData, env |-> "", caller |-> ""]

NoCall == [active |-> FALSE, env |-> "", snap |-> NilSnapshot,
           file0 |-> EmptyPath, existok |-> FALSE,
           marshalOk |-> FALSE, fs |-> <<>>, dirs |-> {}, renamed |-> FALSE,
           file |-> EmptyPath, b |-> NoData, returned |-> FALSE]

\* setCurrentEnv(name, false): the workspace settings name the environment,
\* unless the workspace cannot be opened or saved (ok = FALSE).
setCurrentEnv(cur, name, ok) == IF ok THEN name ELSE cur

\* saveEnv returns r to its caller, which then finishes: createEnv makes the
\* environment current on success; every false return has emitted an error,
\* and so has a setCurrentEnv that failed.
SaveEnvReturn(r, env, caller, cl) ==
    /\ ret' = r
    /\ call' = [cl EXCEPT !.returned = TRUE]
    /\ pc' = "idle"
    /\ sv' = NoFrame
    /\ \E settingsOk \in BOOLEAN :
          IF caller = "createEnv" /\ r
          THEN /\ curEnv' = setCurrentEnv(curEnv, env, settingsOk)
               /\ diagOk' = (diagOk /\ settingsOk)
          ELSE /\ curEnv' = curEnv
               /\ diagOk' = (diagOk /\ r)
    /\ run' = IF /\ r
                 /\ run.ok
                 /\ cl.existok
                 /\ cl.file = EnvPath(EnvName)
                 /\ (Exists(cl.fs, cl.file) => cl.renamed)
              THEN [run EXCEPT !.saved = Append(@, cl.b)]
              ELSE [run EXCEPT !.ok = FALSE]

\* The call of saveEnv(env, snap, file0, existok) by caller.
SaveEnvCall(env, snap, file0, existok, marshalOk, caller) ==
    LET p  == SaveEnvPre(env, snap, file0, existok, marshalOk, fs)
        cl == [active |-> TRUE, env |-> env, snap |-> snap,
               file0 |-> file0, existok |-> existok,
               marshalOk |-> marshalOk, fs |-> fs, dirs |-> dirs,
               renamed |-> FALSE, file |-> p.file, b |-> p.b, returned |-> FALSE]
    IN  /\ UNCHANGED <<fs, dirs, committed, faults>>
        /\ IF p.ok
           THEN /\ pc' = "save_backup"
                /\ call' = cl
                /\ sv' = [file |-> p.file, b |-> p.b, env |-> env, caller |-> caller]
                /\ UNCHANGED <<ret, diagOk, curEnv, run>>
           ELSE SaveEnvReturn(FALSE, env, caller, cl)

\* backupEnv(file); renameOk is the outcome the environment gives the rename.
SaveBackup ==
    /\ pc = "save_backup"
    /\ \E renameOk \in BOOLEAN :
          /\ fs' = backupEnv(fs, sv.file, renameOk)
          /\ call' = [call EXCEPT !.renamed = Renames(fs, sv.file, renameOk)]
          /\ faults' = IF Exists(fs, sv.file) /\ ~renameOk
                       THEN [faults EXCEPT !.renameFailed = TRUE] ELSE faults
    /\ pc' = "save_mkdir"
    /\ UNCHANGED <<dirs, curEnv, diagOk, sv, ret, committed, run, ncmd,
                   plan, ap, prog, trace, saves, cb>>
    /\ UNCHANGED otherVars

\* os.MkdirAll(filepath.Dir(file)): nothing to do when the directory exists;
\* otherwise it is created, or the environment refuses.
MkdirAll(ds, dir, ok) ==
    IF dir \in ds THEN [ok |-> TRUE, dirs |-> ds]
    ELSE IF ok THEN [ok |-> TRUE, dirs |-> ds \cup {dir}]
    ELSE [ok |-> FALSE, dirs |-> ds]

SaveMkdir ==
    /\ pc = "save_mkdir"
    /\ \E mkdirOk \in BOOLEAN :
          LET r == MkdirAll(dirs, Dir(sv.file), mkdirOk)
          IN  /\ dirs' = r.dirs
              /\ IF r.ok
                 THEN /\ pc' = "save_write"
                      /\ UNCHANGED <<sv, ret, call, diagOk, curEnv, run>>
                 ELSE SaveEnvReturn(FALSE, sv.env, sv.caller, call)
    /\ UNCHANGED <<fs, committed, faults, ncmd, plan, ap, prog, trace,
                   saves, cb>>
    /\ UNCHANGED otherVars

\* ioutil.WriteFile, first half: the file is opened for writing, created or
\* truncated, and part of b is written; or the open fails and nothing changes.
WriteFileOpen(fsys, file, b, ok) ==
    IF ok /\ file \in DOMAIN fsys
    THEN [fsys EXCEPT ![file] = Partial(b)]
    ELSE fsys

SaveWriteBegin ==
    /\ pc = "save_write"
    /\ \E openOk \in BOOLEAN :
          /\ fs' = WriteFileOpen(fs, sv.file, sv.b, openOk)
          /\ IF openOk
             THEN /\ pc' = "save_writing"
                  /\ UNCHANGED <<sv, ret, call, diagOk, curEnv, run>>
             ELSE SaveEnvReturn(FALSE, sv.env, sv.caller, call)
    /\ UNCHANGED <<dirs, committed, faults, ncmd, plan, ap, prog, trace,
                   saves, cb>>
    /\ UNCHANGED otherVars

\* ioutil.WriteFile, second half: the rest of b is written and the file
\* closed; or the write fails and the file stays as far as it was written.
WriteFileClose(fsys, file, b, ok) ==
    IF ok /\ file \in DOMAIN fsys
    THEN [fsys EXCEPT ![file] = Complete(b)]
    ELSE fsys

SaveWriteEnd ==
    /\ pc = "save_writing"
    /\ \E writeOk \in BOOLEAN :
          /\ fs' = WriteFileClose(fs, sv.file, sv.b, writeOk)
          /\ committed' = IF writeOk /\ sv.file = EnvPath(EnvName)
                          THEN Complete(sv.b) ELSE committed
          /\ SaveEnvReturn(writeOk, sv.env, sv.caller, call)
    /\ UNCHANGED <<dirs, faults, ncmd, plan, ap, prog, trace, saves, cb>>
    /\ UNCHANGED otherVars

-----------------------------------------------------------------------------
(* The commands that act on the file system.                               *)

\* createEnv(name): saveEnv(env, nil, "", false), then setCurrentEnv.
CreateEnv ==
    /\ pc = "idle"
    /\ ncmd < MaxCmds
    /\ ncmd' = ncmd + 1
    /\ \E marshalOk \in BOOLEAN :
          SaveEnvCall(EnvName, NilSnapshot, EmptyPath, FALSE, marshalOk, "createEnv")
    /\ UNCHANGED <<plan, ap, prog, trace, saves, cb>>
    /\ UNCHANGED otherVars

\* A call of saveEnv on its own, with any arguments.
CallSaveEnv ==
    /\ pc = "idle"
    /\ ncmd < MaxCmds
    /\ ncmd' = ncmd + 1
    /\ \E file0 \in OutputPaths, existok \in BOOLEAN, marshalOk \in BOOLEAN :
          SaveEnvCall(EnvName, Snap(ncmd + 1), file0, existok, marshalOk, "saveEnv")
    /\ UNCHANGED <<plan, ap, prog, trace, saves, cb>>
    /\ UNCHANGED otherVars

\* deleteEnv(env): backs the file up and writes nothing new.
deleteEnv(fsys, env, renameOk) == backupEnv(fsys, EnvPath(env), renameOk)

\* removeEnv(env): deleteEnv, then the message.
RemoveEnv ==
    /\ pc = "idle"
    /\ ncmd < MaxCmds
    /\ ncmd' = ncmd + 1
    /\ \E renameOk \in BOOLEAN :
          /\ fs' = deleteEnv(fs, EnvName, renameOk)
          /\ faults' = [faults EXCEPT
                          !.removed = TRUE,
                          !.renameFailed = @ \/ (Exists(fs, EnvPath(EnvName)) /\ ~renameOk)]
    /\ run' = [run EXCEPT !.ok = FALSE]
    /\ call' = NoCall
    /\ UNCHANGED <<dirs, curEnv, diagOk, pc, sv, ret, committed,
                   plan, ap, prog, trace, saves, cb>>
    /\ UNCHANGED otherVars

\* The process dies while a saveEnv is under way: the files stay as they are.
Crash ==
    /\ pc \in {"save_backup", "save_mkdir", "save_write", "save_writing"}
    /\ pc' = "idle"
    /\ sv' = NoFrame
    /\ faults' = [faults EXCEPT !.crashed = TRUE]
    /\ run' = [run EXCEPT !.ok = FALSE]
    /\ UNCHANGED <<fs, dirs, curEnv, diagOk, ret, call, committed, ncmd,
                   plan, ap, prog, trace, saves, cb>>
    /\ UNCHANGED otherVars

-----------------------------------------------------------------------------
(* readEnv.  The file is decoded twice, into the envfile structure and     *)
(* into a generic object that is validated after its resources are         *)
(* removed; any failure fails the whole read.                              *)

NoEnvfile == [env |-> "", latest |-> NilSnapshot]

KindOk(ms, key, kinds) == Has(ms, key) => Get(ms, key).k \in kinds

StrField(ms, key) == IF Has(ms, key) THEN Get(ms, key).s ELSE ""

IsResourceDoc(j) ==
    /\ j.k = "object"
    /\ KindOk(j.xs, "op", {"string"})
    /\ KindOk(j.xs, "state", {"string"})
    /\ KindOk(j.xs, "step", {"number"})
    /\ Has(j.xs, "step") => IsInt(Get(j.xs, "step").s)
    /\ KindOk(j.xs, "properties", {"object", "null"})

UnmarshalResource(j) ==
    [step  |-> IF Has(j.xs, "step") THEN ParseInt(Get(j.xs, "step").s) ELSE 0,
     op    |-> StrField(j.xs, "op"),
     state |-> StrField(j.xs, "state"),
     props |-> IF Has(j.xs, "properties") /\ Get(j.xs, "properties").k = "object"
               THEN DeserializeProperty(Get(j.xs, "properties")).obj
               ELSE NoProps]

IsLatestDoc(j) ==
    \/ j.k = "null"
    \/ /\ j.k = "object"
       /\ KindOk(j.xs, "resources", {"array", "null"})
       /\ Has(j.xs, "resources") =>
             \A i \in 1..Len(Get(j.xs, "resources").xs) :
                IsResourceDoc(Get(j.xs, "resources").xs[i])

UnmarshalLatest(j) ==
    IF j.k = "object" /\ Has(j.xs, "resources")
    THEN LET rs == Get(j.xs, "resources").xs
         IN  [i \in 1..Len(rs) |-> UnmarshalResource(rs[i])]
    ELSE NilSnapshot

\* m.Unmarshal(b, &envfile): fails on a document that is cut short or is no
\* object, or on a member of the wrong kind; members it does not know are
\* passed over and missing ones left at their zero value.
Unmarshal(c) ==
    IF c.state # "complete" \/ c.data.k # "object"
    THEN [err |-> TRUE, envfile |-> NoEnvfile]
    ELSE LET ms == c.data.xs
         IN  IF /\ KindOk(ms, "name", {"string"})
                /\ Has(ms, "latest") => IsLatestDoc(Get(ms, "latest"))
             THEN [err |-> FALSE,
                   envfile |-> [env    |-> StrField(ms, "name"),
                                latest |-> IF Has(ms, "latest")
                                           THEN UnmarshalLatest(Get(ms, "latest"))
                                           ELSE NilSnapshot]]
             ELSE [err |-> TRUE, envfile |-> NoEnvfile]

\* m.Unmarshal(b, &obj): the document as a map from its keys.
UnmarshalObject(c) ==
    IF c.state # "complete" \/ c.data.k # "object"
    THEN [err |-> TRUE, obj |-> <<>>]
    ELSE [err |-> FALSE,
          obj |-> [key \in MemberKeys(c.data.xs) |-> Get(c.data.xs, key)]]

\* readEnv validating the object with its resources left in.
DeleteResources_kept(obj) == obj

\* delete(latest, "resources"), when obj["latest"] is a map.
DeleteResources(obj) ==
    IF "latest" \in DOMAIN obj /\ obj["latest"].k = "object"
    THEN [obj EXCEPT !["latest"] =
             JObj(SelectSeq(@.xs, LAMBDA m : m.key # "resources"))]
    ELSE obj

EnvfileFields == {"name", "config", "latest"}

\* md.Decode(obj, &ignore): the name is required, no field is unknown, and
\* the resources are beyond the mapper (they need custom marshaling).
Decode(obj) ==
    [err |-> \/ "name" \notin DOMAIN obj
             \/ obj["name"].k # "string"
             \/ DOMAIN obj \ EnvfileFields # {}
             \/ /\ "latest" \in DOMAIN obj
                /\ obj["latest"].k \notin {"object", "null"}
             \/ /\ "latest" \in DOMAIN obj
                /\ obj["latest"].k = "object"
                /\ obj["latest"].xs # <<>>]

NilPtr == [nil |-> TRUE]

Ptr(v) == [nil |-> FALSE, v |-> v]

ErrorIllegalMarkupExtension == "ErrorIllegalMarkupExtension"
ErrorInvalidEnvName         == "ErrorInvalidEnvName"
ErrorIO                     == "ErrorIO"
ErrorCantReadDeployment     == "ErrorCantReadDeployment"

ReadFailed(diag) ==
    [envfile |-> NilPtr, env |-> NilPtr, snap |-> NilPtr, diag |-> diag]

\* readEnv that hands back the envfile it decoded when the validation fails.
readEnvFile_partial(file, name, fsys, readOk) ==
    LET c   == IF file \in DOMAIN fsys THEN fsys[file] ELSE Absent
        t   == Unmarshal(c)
        g   == UnmarshalObject(c)
        des == DeserializeEnvfile(t.envfile)
    IN  IF Detect(file).m = Nil THEN ReadFailed(ErrorIllegalMarkupExtension)
        ELSE IF c.state = "absent" THEN ReadFailed(ErrorInvalidEnvName)
        ELSE IF ~readOk THEN ReadFailed(ErrorIO)
        ELSE IF t.err THEN ReadFailed(ErrorCantReadDeployment)
        ELSE IF g.err THEN ReadFailed(ErrorCantReadDeployment)
        ELSE IF Decode(DeleteResources(g.obj)).err
        THEN [ReadFailed(ErrorCantReadDeployment) EXCEPT !.envfile = Ptr(t.envfile)]
        ELSE [envfile |-> Ptr(t.envfile), env |-> Ptr(des.env),
              snap |-> IF des.snap = NilSnapshot THEN NilPtr ELSE Ptr(des.snap),
              diag |-> Nil]

\* readEnv that returns nil without a diagnostic when the validation fails.
readEnvFile_silent(file, name, fsys, readOk) ==
    LET c   == IF file \in DOMAIN fsys THEN fsys[file] ELSE Absent
        t   == Unmarshal(c)
        g   == UnmarshalObject(c)
        des == DeserializeEnvfile(t.envfile)
    IN  IF Detect(file).m = Nil THEN ReadFailed(ErrorIllegalMarkupExtension)
        ELSE IF c.state = "absent" THEN ReadFailed(ErrorInvalidEnvName)
        ELSE IF ~readOk THEN ReadFailed(ErrorIO)
        ELSE IF t.err THEN ReadFailed(ErrorCantReadDeployment)
        ELSE IF g.err THEN ReadFailed(ErrorCantReadDeployment)
        ELSE IF Decode(DeleteResources(g.obj)).err
        THEN ReadFailed(Nil)
        ELSE [envfile |-> Ptr(t.envfile), env |-> Ptr(des.env),
              snap |-> IF des.snap = NilSnapshot THEN NilPtr ELSE Ptr(des.snap),
              diag |-> Nil]

\* readEnv from the Detect on; file is workspace.EnvPath(name), readOk the
\* outcome the environment gives the read of a file that exists.
readEnvFile(file, name, fsys, readOk) ==
    LET c   == IF file \in DOMAIN fsys THEN fsys[file] ELSE Absent
        t   == Unmarshal(c)
        g   == UnmarshalObject(c)
        des == DeserializeEnvfile(t.envfile)
    IN  IF Detect(file).m = Nil THEN ReadFailed(ErrorIllegalMarkupExtension)
        ELSE IF c.state = "absent" THEN ReadFailed(ErrorInvalidEnvName)
        ELSE IF ~readOk THEN ReadFailed(ErrorIO)
        ELSE IF t.err THEN ReadFailed(ErrorCantReadDeployment)
        ELSE IF g.err THEN ReadFailed(ErrorCantReadDeployment)
        ELSE IF Decode(DeleteResources(g.obj)).err
        THEN ReadFailed(ErrorCantReadDeployment)
        ELSE [envfile |-> Ptr(t.envfile), env |-> Ptr(des.env),
              snap |-> IF des.snap = NilSnapshot THEN NilPtr ELSE Ptr(des.snap),
              diag |-> Nil]

readEnv(name, fsys, readOk) == readEnvFile(EnvPath(name), name, fsys, readOk)

NoRead == [called |-> FALSE, name |-> "", readOk |-> FALSE, at |-> 0,
           res |-> ReadFailed(Nil)]

\* A call of readEnv(name), as initEnvCmdName makes it.
ReadEnv ==
    /\ pc = "idle"
    /\ \E readOk \in BOOLEAN :
          LET r == readEnv(EnvName, fs, readOk)
          IN  /\ rd' = [called |-> TRUE, name |-> EnvName, readOk |-> readOk,
                        at |-> ncmd, res |-> r]
              /\ diagOk' = (diagOk /\ r.diag = Nil)
    /\ UNCHANGED <<fs, dirs, curEnv, pc, sv, ret, call, committed, run, faults,
                   ncmd, plan, ap, prog, trace, saves, cb>>
    /\ UNCHANGED <<olds, news, diff, resp, buf, counts, gen>>

Unset == [set |-> FALSE]

NoCounts == [op \in StepOpSet |-> 0]

\* Nothing was handed to the diff engine or to a printer.
NothingRendered ==
    /\ olds = NoProps
    /\ news = NoProps
    /\ diff = Unset
    /\ resp = Unset
    /\ buf = Unset
    /\ counts = NoCounts
    /\ gen = Unset

OthersIdle == rd = NoRead /\ NothingRendered

-----------------------------------------------------------------------------
(* The diff engine.  A diff is nil (NilPtr) when nothing changed.  Two     *)
(* values diff structurally only if both are arrays or both are objects;   *)
(* arrays are compared index by index.  A key that only one map has is an  *)
(* add or a delete unless its value is null; a key of both maps is an      *)
(* update when its values differ and a same otherwise.                     *)

RECURSIVE ValueDiff(_, _)
RECURSIVE ArrayDiff(_, _)
RECURSIVE Diff(_, _)

ValueDiff(old, new) ==
    IF old.t = "array" /\ new.t = "array"
    THEN LET ad == ArrayDiff(old.arr, new.arr)
         IN  IF ad.nil THEN NilPtr
             ELSE Ptr([Old |-> old, New |-> new, Array |-> ad, Object |-> NilPtr])
    ELSE IF old.t = "object" /\ new.t = "object"
    THEN LET od == Diff(old.obj, new.obj)
         IN  IF od.nil THEN NilPtr
             ELSE Ptr([Old |-> old, New |-> new, Array |-> NilPtr, Object |-> od])
    ELSE IF old = new THEN NilPtr
    ELSE Ptr([Old |-> old, New |-> new, Array |-> NilPtr, Object |-> NilPtr])

\* An array diff that reports a changed element as a delete and an add.
ArrayDiff_deleteAdd(old, new) ==
    LET both    == 0..((IF Len(old) < Len(new) THEN Len(old) ELSE Len(new)) - 1)
        changed == {i \in both : ~ValueDiff(old[i + 1], new[i + 1]).nil}
        adds    == changed \cup Len(old)..(Len(new) - 1)
        deletes == changed \cup Len(new)..(Len(old) - 1)
    IN  IF adds = {} /\ deletes = {} THEN NilPtr
        ELSE Ptr([Adds    |-> [i \in adds |-> new[i + 1]],
                  Deletes |-> [i \in deletes |-> old[i + 1]],
                  Updates |-> [i \in {} |-> PNull],
                  Sames   |-> [i \in both \ changed |-> old[i + 1]]])

\* The indexes of an array diff are those of the code, from 0; the element at
\* index i of an array is the (i + 1)-th of its sequence.
ArrayDiff(old, new) ==
    LET both    == 0..((IF Len(old) < Len(new) THEN Len(old) ELSE Len(new)) - 1)
        adds    == Len(old)..(Len(new) - 1)
        deletes == Len(new)..(Len(old) - 1)
        updates == {i \in both : ~ValueDiff(old[i + 1], new[i + 1]).nil}
    IN  IF adds = {} /\ deletes = {} /\ updates = {} THEN NilPtr
        ELSE Ptr([Adds    |-> [i \in adds |-> new[i + 1]],
                  Deletes |-> [i \in deletes |-> old[i + 1]],
                  Updates |-> [i \in updates |->
                                  ValueDiff(old[i + 1], new[i + 1]).v],
                  Sames   |-> [i \in both \ updates |-> old[i + 1]]])

\* Diff that reports a key only one map has whatever its value is.
Diff_nullsReported(old, new) ==
    LET both    == DOMAIN old \cap DOMAIN new
        adds    == DOMAIN new \ DOMAIN old
        deletes == DOMAIN old \ DOMAIN new
        updates == {key \in both : ~ValueDiff(old[key], new[key]).nil}
    IN  IF adds = {} /\ deletes = {} /\ updates = {} THEN NilPtr
        ELSE Ptr([Adds    |-> [key \in adds |-> new[key]],
                  Deletes |-> [key \in deletes |-> old[key]],
                  Updates |-> [key \in updates |->
                                  ValueDiff(old[key], new[key]).v],
                  Sames   |-> [key \in both \ updates |-> old[key]]])

\* Diff that returns its four maps also when nothing changed.
Diff_neverNil(old, new) ==
    LET both    == DOMAIN old \cap DOMAIN new
        adds    == {key \in DOMAIN new \ DOMAIN old : new[key].t # "null"}
        deletes == {key \in DOMAIN old \ DOMAIN new : old[key].t # "null"}
        updates == {key \in both : ~ValueDiff(old[key], new[key]).nil}
    IN  Ptr([Adds    |-> [key \in adds |-> new[key]],
             Deletes |-> [key \in deletes |-> old[key]],
             Updates |-> [key \in updates |->
                             ValueDiff(old[key], new[key]).v],
             Sames   |-> [key \in both \ updates |-> old[key]]])

Diff(old, new) ==
    LET both    == DOMAIN old \cap DOMAIN new
        adds    == {key \in DOMAIN new \ DOMAIN old : new[key].t # "null"}
        deletes == {key \in DOMAIN old \ DOMAIN new : old[key].t # "null"}
        updates == {key \in both : ~ValueDiff(old[key], new[key]).nil}
    IN  IF adds = {} /\ deletes = {} /\ updates = {} THEN NilPtr
        ELSE Ptr([Adds    |-> [key \in adds |-> new[key]],
                  Deletes |-> [key \in deletes |-> old[key]],
                  Updates |-> [key \in updates |->
                                  ValueDiff(old[key], new[key]).v],
                  Sames   |-> [key \in both \ updates |-> old[key]]])

\* diff.Changed(k): k was added, deleted or updated.
Changed(d, key) ==
    key \in DOMAIN d.Adds \cup DOMAIN d.Deletes \cup DOMAIN d.Updates

\* diff.Keys(): the keys of the four maps, in stable order.
Keys(d) ==
    SelectSeq(KeyOrder,
              LAMBDA key : key \in DOMAIN d.Adds \cup DOMAIN d.Deletes
                                      \cup DOMAIN d.Updates \cup DOMAIN d.Sames)

\* a.Len(): the number of indexes of an array diff.
ArrayLen(a) ==
    Cardinality(DOMAIN a.Adds \cup DOMAIN a.Deletes
                   \cup DOMAIN a.Updates \cup DOMAIN a.Sames)

-----------------------------------------------------------------------------
(* InspectChange of the generated providers.  decerrOld and decerrNew are  *)
(* the outcomes of unmarshaling the request's olds and news, more and err  *)
(* what the provider's ops.InspectChange returns.                          *)

Providers == {"Authorizer", "VPCGatewayAttachment", "ActionTarget", "Alarm", "Key"}

\* The properties whose change the generated code reports as replacing.
ReplaceKeys(provider) ==
    CASE provider = "Authorizer"           -> <<"name">>
      [] provider = "VPCGatewayAttachment" -> <<"name", "vpc", "internetGateway">>
      [] provider = "ActionTarget"         -> <<"name", "topicName">>
      [] provider = "Alarm"                -> <<"name", "alarmName">>
      [] provider = "Key"                  -> <<"name">>

NoResponse == [err |-> TRUE, Replaces |-> <<>>]

\* InspectChange that reports what ops.InspectChange reports and no more.
InspectChange_opsOnly(provider, oldprops, newprops, decerrOld, decerrNew, more, err) ==
    IF decerrOld \/ decerrNew \/ err THEN NoResponse
    ELSE [err |-> FALSE, Replaces |-> more]

\* InspectChange that reports its keys whether or not they changed.
InspectChange_always(provider, oldprops, newprops, decerrOld, decerrNew, more, err) ==
    IF decerrOld \/ decerrNew \/ err THEN NoResponse
    ELSE [err |-> FALSE, Replaces |-> ReplaceKeys(provider) \o more]

\* InspectChange that puts the keys of the ops before its own.
InspectChange_opsFirst(provider, oldprops, newprops, decerrOld, decerrNew, more, err) ==
    IF decerrOld \/ decerrNew THEN NoResponse
    ELSE LET d == Diff(oldprops, newprops)
             replaces == IF d.nil THEN <<>>
                         ELSE SelectSeq(ReplaceKeys(provider),
                                        LAMBDA key : Changed(d.v, key))
         IN  IF err THEN NoResponse
             ELSE [err |-> FALSE, Replaces |-> more \o replaces]

InspectChange(provider, oldprops, newprops, decerrOld, decerrNew, more, err) ==
    IF decerrOld \/ decerrNew THEN NoResponse
    ELSE LET d == Diff(oldprops, newprops)
             replaces == IF d.nil THEN <<>>
                         ELSE SelectSeq(ReplaceKeys(provider),
                                        LAMBDA key : Changed(d.v, key))
         IN  IF err THEN NoResponse
             ELSE [err |-> FALSE, Replaces |-> replaces \o more]

-----------------------------------------------------------------------------
(* Check of the generated providers.  decerr is what unmarshaling the      *)
(* request's properties returns: nil, or a decode error with the failures  *)
(* of the properties that did not decode; failures and err are what the    *)
(* provider's ops.Check returns.  A list of failures is the set of the     *)
(* properties that failed.                                                 *)

NewDecodeErr(failures) == Ptr(failures)

NewCheckResponse(decerr) ==
    [Failures |-> IF decerr.nil THEN {} ELSE decerr.v]

\* Check that asks the ops whatever the decoding reported.
Check_alwaysOps(decerr, failures, err) ==
    IF err THEN [opsCalled |-> TRUE, err |-> TRUE, response |-> NilPtr]
    ELSE [opsCalled |-> TRUE, err |-> FALSE,
          response |-> Ptr(NewCheckResponse(
                              IF failures # {} THEN NewDecodeErr(failures)
                              ELSE decerr))]

Check(decerr, failures, err) ==
    IF decerr.nil \/ decerr.v = {}
    THEN IF err THEN [opsCalled |-> TRUE, err |-> TRUE, response |-> NilPtr]
         ELSE [opsCalled |-> TRUE, err |-> FALSE,
               response |-> Ptr(NewCheckResponse(
                                   IF failures # {} THEN NewDecodeErr(failures)
                                   ELSE decerr))]
    ELSE [opsCalled |-> FALSE, err |-> FALSE,
          response |-> Ptr(NewCheckResponse(decerr))]

-----------------------------------------------------------------------------
(* The rendering of a step's properties.  The buffer is a sequence of      *)
(* lines: the path of keys and indexes of the property, the leader ("+",   *)
(* "-", "+-" or none), the color, what the line is, and the value.         *)

Line(path, mark, color, kind, v) ==
    [path |-> path, mark |-> mark, color |-> color, kind |-> kind, v |-> v]

SpecAdded   == "added"
SpecDeleted == "deleted"
OpReplace   == "replace"
NoColor     == ""

\* The resource references that stand for a replacement.
Replacements == {"urn:new"}

Replacement(v) == v.s \in Replacements

\* A null value is printed as any other.
shouldPrintPropertyValue_always(v) == TRUE

shouldPrintPropertyValue(v) == v.t # "null"

printObject(props, path) ==
    LET keys    == StablePropertyKeys(props)
        printed == SelectSeq(keys, LAMBDA key : shouldPrintPropertyValue(props[key]))
    IN  [i \in 1..Len(printed) |->
            Line(Append(path, printed[i]), "", NoColor, "property", props[printed[i]])]

RECURSIVE printObjectDiffKeys(_, _, _, _, _)
RECURSIVE printArrayDiffFrom(_, _, _, _)
RECURSIVE printPropertyValueDiff(_, _, _)

\* The loop of printObjectDiff over the keys left, causedReplace being the
\* variable the loop carries from key to key.
printObjectDiffKeys(d, keys, replaces, causedReplace, path) ==
    IF keys = <<>> THEN <<>>
    ELSE
      LET key == Head(keys)
          isadd == key \in DOMAIN d.Adds
          isdelete == key \in DOMAIN d.Deletes
          isupdate == key \in DOMAIN d.Updates
          cr == IF ~isadd /\ ~isdelete /\ isupdate
                   /\ ~causedReplace /\ Len(replaces) > 0
                THEN \E i \in 1..Len(replaces) : replaces[i] = key
                ELSE causedReplace
          here ==
            IF isadd
            THEN IF shouldPrintPropertyValue(d.Adds[key])
                 THEN <<Line(Append(path, key), "+", SpecAdded, "add", d.Adds[key])>>
                 ELSE <<>>
            ELSE IF isdelete
            THEN IF shouldPrintPropertyValue(d.Deletes[key])
                 THEN <<Line(Append(path, key), "-", SpecDeleted, "delete",
                             d.Deletes[key])>>
                 ELSE <<>>
            ELSE IF isupdate
            THEN printPropertyValueDiff(Append(path, key), d.Updates[key], cr)
            ELSE IF key \in DOMAIN d.Sames /\ shouldPrintPropertyValue(d.Sames[key])
            THEN <<Line(Append(path, key), "", NoColor, "same", d.Sames[key])>>
            ELSE <<>>
      IN  here \o printObjectDiffKeys(d, Tail(keys), replaces, cr, path)

printObjectDiff(d, replaces, causedReplace, path) ==
    printObjectDiffKeys(d, Keys(d), replaces, causedReplace, path)

\* The loop of printPropertyValueDiff over the indexes of an array diff.
printArrayDiffFrom(a, i, causedReplace, path) ==
    IF i >= ArrayLen(a) THEN <<>>
    ELSE
      LET elem == Append(path, ToString(i))
          here ==
            IF i \in DOMAIN a.Adds
            THEN <<Line(elem, "+", OpCreate, "element-add", a.Adds[i])>>
            ELSE IF i \in DOMAIN a.Deletes
            THEN <<Line(elem, "-", OpDelete, "element-delete", a.Deletes[i])>>
            ELSE IF i \in DOMAIN a.Updates
            THEN printPropertyValueDiff(elem, a.Updates[i], causedReplace)
            ELSE <<Line(elem, "", NoColor, "element-same", a.Sames[i])>>
      IN  here \o printArrayDiffFrom(a, i + 1, causedReplace, path)

printPropertyValueDiff(path, vd, causedReplace) ==
    IF ~vd.Array.nil
    THEN <<Line(path, "", NoColor, "open", PNull)>>
            \o printArrayDiffFrom(vd.Array.v, 0, causedReplace, path)
            \o <<Line(path, "", NoColor, "close", PNull)>>
    ELSE IF ~vd.Object.nil
    THEN <<Line(path, "", NoColor, "open", PNull)>>
            \o printObjectDiff(vd.Object.v, <<>>, causedReplace, path)
            \o <<Line(path, "", NoColor, "close", PNull)>>
    ELSE IF vd.Old.t = "resource" /\ vd.New.t = "resource" /\ Replacement(vd.New)
    THEN <<Line(path, "+-", OpReplace, "replaced", vd.Old)>>
    ELSE (IF shouldPrintPropertyValue(vd.Old)
          THEN <<Line(path, "-", IF causedReplace THEN OpDelete ELSE OpUpdate,
                      "update", vd.Old)>>
          ELSE <<>>)
         \o
         (IF shouldPrintPropertyValue(vd.New)
          THEN <<Line(path, "+", IF causedReplace THEN OpCreate ELSE OpUpdate,
                      "update", vd.New)>>
          ELSE <<>>)

printOldNewDiffs(oldprops, newprops, replaces, path) ==
    LET d == Diff(oldprops, newprops)
    IN  IF ~d.nil THEN printObjectDiff(d.v, replaces, FALSE, path)
        ELSE printObject(newprops, path)

\* printResourceProperties: the URN, and unless a summary is asked for the
\* properties: of the one resource there is, or the diff of the two.
printResourceProperties(old, new, computed, replaces, summary) ==
    <<Line(<<>>, "", NoColor, "urn", PNull)>> \o
    IF summary THEN <<>>
    ELSE IF old.nil /\ ~new.nil THEN printObject(new.v, <<>>)
    ELSE IF new.nil /\ ~old.nil THEN printObject(old.v, <<>>)
    ELSE printOldNewDiffs(old.v, computed, replaces, <<>>)

\* printStep: the replacement causes are looked up only for a step with an
\* old resource.
printStep(old, new, computed, replaceMap, summary) ==
    printResourceProperties(old, new, computed,
                            IF ~old.nil THEN replaceMap ELSE <<>>, summary)

-----------------------------------------------------------------------------
(* printSummary.  The counts are a map from step operations to numbers; an *)
(* operation the map has no entry for counts as zero.  The summary is the  *)
(* line of the total followed by one line for each operation, in the order *)
(* of StepOps, that has a positive count.                                  *)

Count(cs, op) == IF op \in DOMAIN cs THEN cs[op] ELSE 0

RECURSIVE SumCounts(_, _)
SumCounts(cs, ops) ==
    IF ops = {} THEN 0
    ELSE LET op == CHOOSE o \in ops : TRUE
         IN  cs[op] + SumCounts(cs, ops \ {op})

plural(s, c) == IF c # 1 THEN s \o "s" ELSE s

SummaryLine(op, c, isPlan) ==
    [kind |-> "op", op |-> op, n |-> c, noun |-> plural("resource", c),
     planTo |-> IF isPlan THEN "to " ELSE "",
     pastTense |-> IF isPlan THEN "" ELSE "d"]

\* The total counts the replacement steps whatever showReplaceSteps is.
printSummary_countAll(cs, showReplaceSteps, isPlan) ==
    LET hidden(op) == /\ ~showReplaceSteps
                      /\ op \in {OpReplaceCreate, OpReplaceDelete}
        total == SumCounts(cs, DOMAIN cs)
        shown == SelectSeq(StepOps,
                           LAMBDA op : ~hidden(op) /\ Count(cs, op) > 0)
    IN  <<[kind |-> "total", n |-> total,
           planned |-> IF isPlan THEN "planned " ELSE "",
           noun |-> plural("change", total),
           colon |-> IF total # 0 THEN ":" ELSE ""]>> \o
        [i \in 1..Len(shown) |->
            SummaryLine(shown[i], Count(cs, shown[i]), isPlan)]

printSummary(cs, showReplaceSteps, isPlan) ==
    LET hidden(op) == /\ ~showReplaceSteps
                      /\ op \in {OpReplaceCreate, OpReplaceDelete}
        total == SumCounts(cs, {op \in DOMAIN cs : ~hidden(op)})
        shown == SelectSeq(StepOps,
                           LAMBDA op : ~hidden(op) /\ Count(cs, op) > 0)
    IN  <<[kind |-> "total", n |-> total,
           planned |-> IF isPlan THEN "planned " ELSE "",
           noun |-> plural("change", total),
           colon |-> IF total # 0 THEN ":" ELSE ""]>> \o
        [i \in 1..Len(shown) |->
            SummaryLine(shown[i], Count(cs, shown[i]), isPlan)]

-----------------------------------------------------------------------------
(* The applyProgress.                                                      *)

newProgress == [Steps |-> 0, Ops |-> [op \in StepOpSet |-> 0], MaybeCorrupt |-> FALSE]

\* Before(step) prints the step, numbered prog.Steps + 1; it changes nothing.
\* Before that counts the step it announces.
Before_counting(p, op) == [p EXCEPT !.Steps = @ + 1]

Before(p, op) == p

\* After that flags every failure as possible corruption.
After_anyFailure(p, op, state, err) ==
    IF ~err
    THEN [p EXCEPT !.Steps = @ + 1, !.Ops[op] = @ + 1]
    ELSE [p EXCEPT !.MaybeCorrupt = TRUE]

\* After that never flags possible corruption.
After_noCorrupt(p, op, state, err) ==
    IF ~err
    THEN [p EXCEPT !.Steps = @ + 1, !.Ops[op] = @ + 1]
    ELSE p

\* After that counts the step but not its operation.
After_noOps(p, op, state, err) ==
    IF ~err
    THEN [p EXCEPT !.Steps = @ + 1]
    ELSE IF state = StateUnknown
    THEN [p EXCEPT !.MaybeCorrupt = TRUE]
    ELSE p

\* After(step, state, err): err = TRUE stands for a non-nil error; state is
\* one of the two resource states (any other value stops After by contract).
After(p, op, state, err) ==
    IF ~err
    THEN [p EXCEPT !.Steps = @ + 1, !.Ops[op] = @ + 1]
    ELSE IF state = StateUnknown
    THEN [p EXCEPT !.MaybeCorrupt = TRUE]
    ELSE p

\* After that reports no error diagnostic for a failed step.
AfterDiag_silent(d, err) == d

\* The diagnostics sink after After: a failed step is reported as an error.
AfterDiag(d, err) == d /\ ~err

NoTally == [afters |-> 0, ok |-> 0, unknownFail |-> FALSE,
            byOp |-> [op \in StepOpSet |-> 0], okByOp |-> [op \in StepOpSet |-> 0],
            befores |-> 0]

\* The tallies after one more After(step, state, err) callback.
Tally(t, op, state, err) ==
    [t EXCEPT !.afters = @ + 1,
              !.ok = IF err THEN @ ELSE @ + 1,
              !.unknownFail = @ \/ (err /\ state = StateUnknown),
              !.byOp[op] = @ + 1,
              !.okByOp[op] = IF err THEN @ ELSE @ + 1]

\* A caller invokes Before on the applyProgress, for any step.
CallBefore ==
    /\ cb.befores + cb.afters < MaxCalls
    /\ \E op \in StepOpSet : prog' = Before(prog, op)
    /\ cb' = [cb EXCEPT !.befores = @ + 1]
    /\ UNCHANGED <<fs, dirs, curEnv, diagOk, pc, sv, ret, call, committed, run,
                   faults, ncmd, plan, ap, trace, saves>>
    /\ UNCHANGED otherVars

\* A caller invokes After on the applyProgress, for any step and outcome.
CallAfter ==
    /\ cb.befores + cb.afters < MaxCalls
    /\ \E op \in StepOpSet, state \in States, err \in BOOLEAN :
          /\ prog' = After(prog, op, state, err)
          /\ diagOk' = AfterDiag(diagOk, err)
          /\ cb' = Tally(cb, op, state, err)
    /\ UNCHANGED <<fs, dirs, curEnv, pc, sv, ret, call, committed, run,
                   faults, ncmd, plan, ap, trace, saves>>
    /\ UNCHANGED otherVars

-----------------------------------------------------------------------------
(* The apply command.  Plan.Apply walks the steps of the plan in order:    *)
(* Before, the provider call, After; it returns at the first failed step   *)
(* or after the last step, with the checkpoint of the steps it applied.    *)

NoApply == [planned |-> FALSE, dryRun |-> FALSE, output |-> EmptyPath, idx |-> 0,
            checkpoint |-> <<>>, err |-> FALSE, state |-> StateOK]

Plans == UNION {[1..n -> PlanOps] : n \in 0..MaxPlanLen}

\* The snapshot a plan aims at: every step applied.
NewSnapshot(p) == [i \in 1..Len(p) |-> Res(i, p[i], StateOK)]

\* apply whose dry run saves wherever the output option points, the default
\* location included.
ApplyStart_dryRunSaves ==
    /\ pc = "start"
    /\ \E planned \in BOOLEAN, dryRun \in BOOLEAN, output \in ApplyOutputs,
          p \in Plans, marshalOk \in BOOLEAN :
          /\ ap' = [NoApply EXCEPT !.planned = planned, !.dryRun = dryRun,
                                   !.output = output, !.idx = 1]
          /\ plan' = IF planned THEN p ELSE <<>>
          /\ IF ~planned
             THEN /\ pc' = "idle"
                  /\ UNCHANGED <<prog, saves, fsVars, diagOk>>
             ELSE IF dryRun
             THEN /\ SaveEnvCall(EnvName, NewSnapshot(p), output, TRUE, marshalOk,
                                 "apply")
                  /\ saves' = Append(saves, [snap |-> NewSnapshot(p), file0 |-> output,
                                             existok |-> TRUE, at |-> Len(trace)])
                  /\ UNCHANGED prog
             ELSE /\ prog' = newProgress
                  /\ pc' = IF p = <<>> THEN "apply_done" ELSE "apply_before"
                  /\ UNCHANGED <<saves, fsVars, diagOk>>
    /\ UNCHANGED <<ncmd, trace, cb>>
    /\ UNCHANGED otherVars

\* apply, up to the call of Plan.Apply (or to its end, for a dry run or
\* when plan() yields nothing).
ApplyStart ==
    /\ pc = "start"
    /\ \E planned \in BOOLEAN, dryRun \in BOOLEAN, output \in ApplyOutputs,
          p \in Plans, marshalOk \in BOOLEAN :
          /\ ap' = [NoApply EXCEPT !.planned = planned, !.dryRun = dryRun,
                                   !.output = output, !.idx = 1]
          /\ plan' = IF planned THEN p ELSE <<>>
          /\ IF ~planned \/ (dryRun /\ output \in {EmptyPath, DashPath})
             THEN /\ pc' = "idle"
                  /\ UNCHANGED <<prog, saves, fsVars, diagOk>>
             ELSE IF dryRun
             THEN /\ SaveEnvCall(EnvName, NewSnapshot(p), output, TRUE, marshalOk,
                                 "apply")
                  /\ saves' = Append(saves, [snap |-> NewSnapshot(p), file0 |-> output,
                                             existok |-> TRUE, at |-> Len(trace)])
                  /\ UNCHANGED prog
             ELSE /\ prog' = newProgress
                  /\ pc' = IF p = <<>> THEN "apply_done" ELSE "apply_before"
                  /\ UNCHANGED <<saves, fsVars, diagOk>>
    /\ UNCHANGED <<ncmd, trace, cb>>
    /\ UNCHANGED otherVars

\* A walk that passes over every other step.
NextIdx_skip(idx) == idx + 2

\* The step after step idx.
NextIdx(idx) == idx + 1

\* Plan.Apply going to the provider call without calling Before.
PlanApplyBefore_skipped ==
    /\ pc = "apply_before"
    /\ pc' = "apply_call"
    /\ UNCHANGED <<fsVars, diagOk, ncmd, plan, ap, prog, trace, saves, cb>>
    /\ UNCHANGED otherVars

\* Plan.Apply: prog.Before(step).
PlanApplyBefore ==
    /\ pc = "apply_before"
    /\ prog' = Before(prog, plan[ap.idx])
    /\ trace' = Append(trace, [kind |-> "before", idx |-> ap.idx, op |-> plan[ap.idx]])
    /\ pc' = "apply_call"
    /\ UNCHANGED <<fsVars, diagOk, ncmd, plan, ap, saves, cb>>
    /\ UNCHANGED otherVars

\* Plan.Apply: the provider call of the step, with any outcome; the step's
\* result joins the checkpoint.
PlanApplyStep ==
    /\ pc = "apply_call"
    /\ \E err \in BOOLEAN, state \in States :
          /\ err \/ state = StateOK
          /\ ap' = [ap EXCEPT !.err = err, !.state = state,
                              !.checkpoint = Append(@, Res(ap.idx, plan[ap.idx], state))]
    /\ trace' = Append(trace, [kind |-> "call", idx |-> ap.idx, op |-> plan[ap.idx]])
    /\ pc' = "apply_after"
    /\ UNCHANGED <<fsVars, diagOk, ncmd, plan, prog, saves, cb>>
    /\ UNCHANGED otherVars

\* Plan.Apply: prog.After(step, state, err); then the next step, or the
\* return at a failure or at the end of the plan.
PlanApplyAfter ==
    /\ pc = "apply_after"
    /\ prog' = After(prog, plan[ap.idx], ap.state, ap.err)
    /\ diagOk' = AfterDiag(diagOk, ap.err)
    /\ cb' = Tally(cb, plan[ap.idx], ap.state, ap.err)
    /\ trace' = Append(trace, [kind |-> "after", idx |-> ap.idx, op |-> plan[ap.idx]])
    /\ IF ap.err \/ NextIdx(ap.idx) > Len(plan)
       THEN pc' = "apply_done" /\ ap' = ap
       ELSE pc' = "apply_before" /\ ap' = [ap EXCEPT !.idx = NextIdx(@)]
    /\ UNCHANGED <<fsVars, ncmd, plan, saves>>
    /\ UNCHANGED otherVars

\* apply, after Plan.Apply returned: the assertion that an error was
\* reported, the summary, and the save of the checkpoint.
ApplyFinish ==
    /\ pc = "apply_done"
    /\ IF ap.err /\ diagOk
       THEN /\ pc' = "panic"
            /\ UNCHANGED <<saves, fsVars, diagOk>>
       ELSE /\ \E marshalOk \in BOOLEAN :
                  SaveEnvCall(EnvName, ap.checkpoint, ap.output, TRUE, marshalOk, "apply")
            /\ saves' = Append(saves, [snap |-> ap.checkpoint, file0 |-> ap.output,
                                       existok |-> TRUE, at |-> Len(trace)])
    /\ UNCHANGED <<ncmd, plan, ap, prog, trace, cb>>
    /\ UNCHANGED otherVars

-----------------------------------------------------------------------------
(* The file-system specification: commands, saves, and crashes.            *)

InitData(file) ==
    IF file = EnvPath(EnvName) THEN OldData
    ELSE Marshal(SerializeEnvfile(EnvName, Snap(0)))

InitSave ==
    /\ fs \in {f \in [Files -> {Absent} \cup {Complete(InitData(x)) : x \in Files}] :
                 /\ \A x \in Files : f[x] \in {Absent, Complete(InitData(x))}
                 /\ f[Bak(TxtPath)] = Absent
                 /\ f[Bak(DashJson)] = Absent
                 /\ f[OutJson] = Absent
                 /\ f[Bak(OutJson)] = Absent}
    /\ dirs \in {{Cwd}, {Cwd, EnvDir}}
    /\ (\E x \in Files : Dir(x) = EnvDir /\ Exists(fs, x)) => EnvDir \in dirs
    /\ curEnv = ""
    /\ diagOk = TRUE
    /\ pc = "idle"
    /\ sv = NoFrame
    /\ ret = FALSE
    /\ call = NoCall
    /\ committed = fs[EnvPath(EnvName)]
    /\ run = [ok |-> TRUE, saved |-> <<>>]
    /\ faults = [crashed |-> FALSE, renameFailed |-> FALSE, removed |-> FALSE]
    /\ ncmd = 0
    /\ plan = <<>>
    /\ ap = NoApply
    /\ prog = newProgress
    /\ trace = <<>>
    /\ saves = <<>>
    /\ cb = NoTally
    /\ OthersIdle

\* A free-standing applyProgress, called back in any order.
NoDeployment ==
    /\ fs = [x \in Files |-> Absent]
    /\ dirs = {Cwd}
    /\ curEnv = ""
    /\ diagOk = TRUE
    /\ pc = "idle"
    /\ sv = NoFrame
    /\ ret = FALSE
    /\ call = NoCall
    /\ committed = Absent
    /\ run = [ok |-> TRUE, saved |-> <<>>]
    /\ faults = [crashed |-> FALSE, renameFailed |-> FALSE, removed |-> FALSE]
    /\ ncmd = 0
    /\ plan = <<>>
    /\ ap = NoApply
    /\ prog = newProgress
    /\ trace = <<>>
    /\ saves = <<>>
    /\ cb = NoTally

InitProgress == NoDeployment /\ OthersIdle

NextProgress ==
    \/ CallBefore
    \/ CallAfter

SpecProgress == InitProgress /\ [][NextProgress]_vars

\* One run of the apply command on an environment that was read.
InitApply ==
    /\ fs \in {f \in [Files -> {Absent} \cup {Complete(InitData(x)) : x \in Files}] :
                 /\ f[EnvPath(EnvName)] = Complete(OldData)
                 /\ f[Bak(EnvPath(EnvName))] \in
                        {Absent, Complete(InitData(Bak(EnvPath(EnvName))))}
                 /\ f[TxtPath] = Absent
                 /\ f[Bak(TxtPath)] = Absent
                 /\ f[DashJson] = Absent
                 /\ f[Bak(DashJson)] = Absent
                 /\ f[OutJson] = Absent
                 /\ f[Bak(OutJson)] = Absent}
    /\ dirs = {Cwd, EnvDir}
    /\ curEnv = EnvName
    /\ diagOk = TRUE
    /\ pc = "start"
    /\ sv = NoFrame
    /\ ret = FALSE
    /\ call = NoCall
    /\ committed = fs[EnvPath(EnvName)]
    /\ run = [ok |-> TRUE, saved |-> <<>>]
    /\ faults = [crashed |-> FALSE, renameFailed |-> FALSE, removed |-> FALSE]
    /\ ncmd = 0
    /\ plan = <<>>
    /\ ap = NoApply
    /\ prog = newProgress
    /\ trace = <<>>
    /\ saves = <<>>
    /\ cb = NoTally
    /\ OthersIdle

NextApply ==
    \/ ApplyStart
    \/ PlanApplyBefore
    \/ PlanApplyStep
    \/ PlanApplyAfter
    \/ ApplyFinish
    \/ SaveBackup
    \/ SaveMkdir
    \/ SaveWriteBegin
    \/ SaveWriteEnd

SpecApply == InitApply /\ [][NextApply]_vars

NextSave ==
    \/ CreateEnv
    \/ CallSaveEnv
    \/ RemoveEnv
    \/ SaveBackup
    \/ SaveMkdir
    \/ SaveWriteBegin
    \/ SaveWriteEnd
    \/ Crash

SpecSave == InitSave /\ [][NextSave]_vars


-----------------------------------------------------------------------------
(* The read specification: saves of snapshots with properties, reads, and  *)
(* crashes, on an environment file that may hold anything at the start.    *)

WithProps(r, props) == [r EXCEPT !.props = props]

PropertyMaps ==
    {NoProps,
     [key \in {"name"} |-> PString("web")],
     [key \in {"a", "b"} |-> IF key = "a" THEN PNull ELSE PNumber("1")],
     [key \in {"a", "b", "name"} |->
         CASE key = "a" -> PResource("urn:vpc")
           [] key = "b" -> PArray(<<PString("s"), PNull>>)
           [] key = "name" -> PObject([k2 \in {"a"} |-> PNumber("2")])]}

Snapshots ==
    {NilSnapshot}
        \cup {<<WithProps(Res(1, OpCreate, StateOK), p)>> : p \in PropertyMaps}
        \cup {<<WithProps(Res(1, OpCreate, StateOK), p),
                WithProps(Res(2, OpUpdate, StateUnknown), NoProps)>> :
                   p \in PropertyMaps \ {NoProps}}

\* An envfile whose name is no string, and one with a field no envfile has.
BadName == JObj(<<Member("name", JNum("1"))>>)

ExtraField == JObj(<<Member("name", JStr(EnvName)), Member("extra", JNull)>>)

Contents ==
    {Absent, Complete(OldData), Partial(OldData), Complete(BadName),
     Complete(ExtraField), Complete(JArr(<<>>)),
     Complete(Marshal(SerializeEnvfile(EnvName, Snap(0))))}

InitRead ==
    /\ fs \in {f \in [Files -> Contents] :
                 \A x \in Files \ {EnvPath(EnvName)} : f[x] = Absent}
    /\ dirs \in {{Cwd}, {Cwd, EnvDir}}
    /\ Exists(fs, EnvPath(EnvName)) => EnvDir \in dirs
    /\ curEnv = ""
    /\ diagOk = TRUE
    /\ pc = "idle"
    /\ sv = NoFrame
    /\ ret = FALSE
    /\ call = NoCall
    /\ committed = IF fs[EnvPath(EnvName)] \in {Complete(BadName),
                                                Complete(ExtraField),
                                                Complete(JArr(<<>>)),
                                                Partial(OldData)}
                   THEN Absent ELSE fs[EnvPath(EnvName)]
    /\ run = [ok |-> TRUE, saved |-> <<>>]
    /\ faults = [crashed |-> FALSE, renameFailed |-> FALSE, removed |-> FALSE]
    /\ ncmd = 0
    /\ plan = <<>>
    /\ ap = NoApply
    /\ prog = newProgress
    /\ trace = <<>>
    /\ saves = <<>>
    /\ cb = NoTally
    /\ OthersIdle

\* A call of saveEnv with a snapshot of the model, on the environment's path
\* or on a path without an extension.
SaveSnapshot ==
    /\ pc = "idle"
    /\ ncmd < MaxSaves
    /\ ncmd' = ncmd + 1
    /\ \E snap \in Snapshots, file0 \in {EmptyPath, DashPath},
          existok \in BOOLEAN, marshalOk \in BOOLEAN :
          SaveEnvCall(EnvName, snap, file0, existok, marshalOk, "saveEnv")
    /\ UNCHANGED <<plan, ap, prog, trace, saves, cb>>
    /\ UNCHANGED otherVars

NextRead ==
    \/ SaveSnapshot
    \/ ReadEnv
    \/ SaveBackup
    \/ SaveMkdir
    \/ SaveWriteBegin
    \/ SaveWriteEnd
    \/ Crash

SpecRead == InitRead /\ [][NextRead]_vars

-----------------------------------------------------------------------------
(* The diff specification: one call of Diff, of a provider's               *)
(* InspectChange or of printStep on a pair of property maps.               *)

DiffNames == {PNull, PString("x"), PString("y")}

DiffValues ==
    {PNull, PString("x"),
     PObject([key \in {"a", "b"} |-> PString("x")]),
     PObject([key \in {"a", "b"} |-> IF key = "a" THEN PString("y") ELSE PString("x")]),
     PArray(<<PString("x"), PString("x")>>),
     PArray(<<PString("y")>>),
     PArray(<<PNumber("1"), PNumber("2"), PNumber("3")>>),
     PArray(<<PNumber("9"), PNumber("2"), PNumber("3")>>)}

DiffRefs == {PResource("urn:vpc"), PResource("urn:new")}

\* The property maps: a name or none, a value under "a" or none, a
\* reference under "vpc" or none.
DiffMaps ==
    {m \in UNION {[ks -> DiffNames \cup DiffValues \cup DiffRefs] :
                     ks \in SUBSET {"a", "name", "vpc"}} :
        /\ "name" \in DOMAIN m => m["name"] \in DiffNames
        /\ "a" \in DOMAIN m => m["a"] \in DiffValues
        /\ "vpc" \in DOMAIN m => m["vpc"] \in DiffRefs}

ReplaceLists == {<<>>, <<"name">>, <<"a">>, <<"vpc", "name">>}

InitDiff ==
    /\ NoDeployment
    /\ rd = NoRead
    /\ olds \in DiffMaps
    /\ news \in DiffMaps
    /\ diff = Unset
    /\ resp = Unset
    /\ buf = Unset
    /\ counts = NoCounts
    /\ gen = Unset

Fresh == diff = Unset /\ resp = Unset /\ buf = Unset

CallDiff ==
    /\ Fresh
    /\ diff' = [set |-> TRUE, d |-> Diff(olds, news)]
    /\ UNCHANGED <<deployVars, rd, olds, news, resp, buf, counts, gen>>

CallInspectChange ==
    /\ Fresh
    /\ \E provider \in Providers, more \in ReplaceLists,
          decerrOld \in BOOLEAN, decerrNew \in BOOLEAN, err \in BOOLEAN :
          resp' = [set |-> TRUE, provider |-> provider, more |-> more,
                   r |-> InspectChange(provider, olds, news,
                                       decerrOld, decerrNew, more, err)]
    /\ UNCHANGED <<deployVars, rd, olds, news, diff, buf, counts, gen>>

CallPrintStep ==
    /\ Fresh
    /\ \E hasOld \in BOOLEAN, hasNew \in BOOLEAN, summary \in BOOLEAN,
          replaceMap \in ReplaceLists :
          /\ hasOld \/ hasNew
          /\ buf' = [set |-> TRUE, hasOld |-> hasOld, hasNew |-> hasNew,
                     summary |-> summary,
                     replaces |-> IF hasOld THEN replaceMap ELSE <<>>,
                     lines |-> printStep(IF hasOld THEN Ptr(olds) ELSE NilPtr,
                                         IF hasNew THEN Ptr(news) ELSE NilPtr,
                                         news, replaceMap, summary)]
    /\ UNCHANGED <<deployVars, rd, olds, news, diff, resp, counts, gen>>

NextDiff ==
    \/ CallDiff
    \/ CallInspectChange
    \/ CallPrintStep

SpecDiff == InitDiff /\ [][NextDiff]_vars

-----------------------------------------------------------------------------
(* The inspection specification: one call of a provider's InspectChange on *)
(* olds and news that have any of the properties the generated providers   *)
(* look at.                                                                *)

InspectKeys == {"name", "vpc", "internetGateway", "topicName", "alarmName"}

InspectOlds ==
    UNION {[ks -> {PString("x")}] : ks \in SUBSET InspectKeys}

InspectNews ==
    {m \in UNION {[ks -> {PNull, PString("x"), PString("y")}] :
                     ks \in SUBSET InspectKeys} :
        \A key \in DOMAIN m : m[key] = PNull => key = "name"}

InitInspect ==
    /\ NoDeployment
    /\ rd = NoRead
    /\ olds \in InspectOlds
    /\ news \in InspectNews
    /\ diff = Unset
    /\ resp = Unset
    /\ buf = Unset
    /\ counts = NoCounts
    /\ gen = Unset

NextInspect == CallInspectChange

SpecInspect == InitInspect /\ [][NextInspect]_vars

-----------------------------------------------------------------------------
(* The check specification: one call of a provider's Check.                *)

CheckedProviders == {"Authorizer", "VPCGatewayAttachment", "Alarm"}

CheckedFields == {"name", "type", "restAPI"}

DecodeErrors == {NilPtr} \cup {Ptr(fields) : fields \in SUBSET CheckedFields}

InitCheck == NoDeployment /\ OthersIdle

CallCheck ==
    /\ resp = Unset
    /\ \E provider \in CheckedProviders, decerr \in DecodeErrors,
          failures \in SUBSET CheckedFields, err \in BOOLEAN :
          resp' = [set |-> TRUE, provider |-> provider, decerr |-> decerr,
                   failures |-> failures, opsErr |-> err,
                   r |-> Check(decerr, failures, err)]
    /\ UNCHANGED <<deployVars, rd, olds, news, diff, buf, counts, gen>>

NextCheck == CallCheck

SpecCheck == InitCheck /\ [][NextCheck]_vars

-----------------------------------------------------------------------------
(* The summary specification: one call of printSummary on a map of counts. *)

CountMaps ==
    UNION {[ops -> 0..MaxCount] : ops \in SUBSET StepOpSet}

InitSummary ==
    /\ NoDeployment
    /\ rd = NoRead
    /\ olds = NoProps
    /\ news = NoProps
    /\ diff = Unset
    /\ resp = Unset
    /\ buf = Unset
    /\ counts \in CountMaps
    /\ gen = Unset

CallPrintSummary ==
    /\ buf = Unset
    /\ \E showReplaceSteps \in BOOLEAN, isPlan \in BOOLEAN :
          buf' = [set |-> TRUE, showReplaceSteps |-> showReplaceSteps,
                  plan |-> isPlan,
                  lines |-> printSummary(counts, showReplaceSteps, isPlan)]
    /\ UNCHANGED <<deployVars, rd, olds, news, diff, resp, counts, gen>>

NextSummary == CallPrintSummary

SpecSummary == InitSummary /\ [][NextSummary]_vars

-----------------------------------------------------------------------------
(* Properties of checkpoint persistence, checked under SpecSave.           *)

TheEnvPath == EnvPath(EnvName)

CallFile == ResolveFile(call.env, call.file0)

InSave == pc \in {"save_backup", "save_mkdir", "save_write", "save_writing"}

\* C2: a saveEnv call with existok = false on a path where a file exists
\* returns false at once and leaves the file at that path, the file at
\* path + ".bak" and the directories exactly as they were at the call.
C2_ExistingNotOverwritten ==
    (call.active /\ ~call.existok /\ Exists(call.fs, CallFile))
        => /\ ~InSave
           /\ call.returned
           /\ ret = FALSE
           /\ fs[CallFile] = call.fs[CallFile]
           /\ fs[Bak(CallFile)] = call.fs[Bak(CallFile)]
           /\ dirs = call.dirs

\* C2's case: createEnv on an environment whose file exists (and encodes),
\* with a backup beside it, was refused.
C2_Witness ==
    /\ call.active /\ call.returned
    /\ ~call.existok /\ call.marshalOk /\ call.file0 = EmptyPath
    /\ Exists(call.fs, TheEnvPath) /\ Exists(call.fs, Bak(TheEnvPath))
    /\ ret = FALSE
    /\ pc = "idle"

\* C3 (as claimed), in the runs of saveEnv calls alone where every rename
\* of an existing file succeeded: once a process crash has happened during
\* a saveEnv, the last complete checkpoint of the environment is intact at
\* its path or at path + ".bak", also while and after a further saveEnv runs.
C3_CrashSafe ==
    (/\ faults.crashed /\ ~faults.renameFailed /\ ~faults.removed
     /\ committed.state = "complete")
        => \/ fs[TheEnvPath] = committed
           \/ fs[Bak(TheEnvPath)] = committed

\* C4: (a) while saveEnv creates the directory and writes, a backup whose
\* rename succeeded already holds what was at the path and the path holds
\* nothing of the new content before the write; (b) a successful save with
\* existok = true whose rename succeeded leaves the new content at the path
\* and what was there before at path + ".bak"; (c) after an unbroken run
\* of such saves to the environment's path, the path holds the last save's
\* content and path + ".bak" the one saved immediately before it.
C4_BackupThenWrite ==
    /\ (InSave /\ pc # "save_backup" /\ call.renamed)
          => /\ fs[Bak(sv.file)] = call.fs[sv.file]
             /\ (pc \in {"save_mkdir", "save_write"} => fs[sv.file] = Absent)
    /\ (call.active /\ call.returned /\ ret /\ call.existok /\ call.renamed)
          => /\ fs[call.file] = Complete(call.b)
             /\ fs[Bak(call.file)] = call.fs[call.file]
    /\ (run.ok /\ pc = "idle" /\ Len(run.saved) >= 1)
          => /\ fs[TheEnvPath] = Complete(run.saved[Len(run.saved)])
             /\ Len(run.saved) >= 2
                   => fs[Bak(TheEnvPath)] = Complete(run.saved[Len(run.saved) - 1])

\* C4's case: three successful saves in a row to the environment's path.
C4_Witness ==
    /\ run.ok /\ pc = "idle" /\ Len(run.saved) = 3
    /\ call.renamed /\ ret
    /\ fs[Bak(TheEnvPath)] = Complete(run.saved[2])

\* C5: a saveEnv call whose format cannot be detected, or whose encoding
\* fails, returns false at once with the whole file system (every file,
\* every directory) as it was at the call.
C5_FailsBeforeTouching ==
    (call.active /\ (Detect(IF call.file0 = EmptyPath THEN EnvPath(call.env)
                            ELSE call.file0).m = Nil
                     \/ ~call.marshalOk))
        => /\ ~InSave
           /\ call.returned
           /\ ret = FALSE
           /\ fs = call.fs
           /\ dirs = call.dirs

\* C5's cases: an encoding failure on the environment's existing file, and
\* an undetectable format on an existing out.txt.
C5_Witness ==
    /\ call.active /\ call.returned /\ ret = FALSE
    /\ \/ /\ call.file0 = EmptyPath /\ ~call.marshalOk /\ call.existok
          /\ Exists(fs, TheEnvPath)
       \/ /\ call.file0 = TxtPath /\ call.marshalOk /\ call.existok
          /\ Exists(fs, TxtPath)


\* The path a saveEnv call was given, resolved to the default when empty.
CallFile0 == IF call.file0 = EmptyPath THEN EnvPath(call.env) ELSE call.file0

ReadPaths == OutputPaths \cup {EnvPath(EnvName)}

\* C12 (as claimed): a saveEnv on a path without a recognized extension, a
\* path with no extension at all included, returns false with no file
\* written; a readEnv of such a path returns nil results.
C12_NoExtensionRejected ==
    /\ (call.active /\ call.returned /\ Ext(CallFile0) \notin Marshalers)
          => ret = FALSE /\ fs = call.fs
    /\ \A file \in ReadPaths, readOk \in BOOLEAN :
          Ext(file) \notin Marshalers
             => readEnvFile(file, EnvName, fs, readOk).envfile = NilPtr

\* C12 (amended): a saveEnv on a path whose extension is there and is not
\* recognized returns false at once with the file system as it was; a
\* saveEnv on a path with no extension at all goes on to the path with the
\* default extension appended, and a true return leaves its content there;
\* a readEnv of a path whose format is undetectable returns nil results.
C12_UnrecognizedRejected ==
    /\ (call.active /\ Ext(CallFile0) \notin Marshalers \cup {""})
          => /\ ~InSave /\ call.returned
             /\ ret = FALSE
             /\ fs = call.fs /\ dirs = call.dirs
    /\ (call.active /\ Ext(CallFile0) = "")
          => /\ call.file = AddExt(CallFile0, DefaultExt)
             /\ (call.returned /\ ret) => fs[call.file] = Complete(call.b)
    /\ \A file \in ReadPaths, readOk \in BOOLEAN :
          Detect(file).m = Nil
             => readEnvFile(file, EnvName, fs, readOk)
                   = ReadFailed(ErrorIllegalMarkupExtension)

\* C12's cases: a save to out.txt was refused, after a save to "-" had
\* written -.json.
C12_Witness ==
    /\ call.active /\ call.returned /\ call.file0 = TxtPath /\ call.marshalOk
    /\ ret = FALSE
    /\ \E k \in 1..MaxCmds :
          fs[DashJson] = Complete(Marshal(SerializeEnvfile(EnvName, Snap(k))))

\* C27: when a saveEnv call has returned false and a complete checkpoint was
\* at its path when it was called, that checkpoint is, complete, at the path
\* or at path + ".bak", whether or not the rename of the backup took place.
C27_FailedSaveKeepsCheckpoint ==
    (/\ call.active /\ call.returned /\ ~ret
     /\ call.fs[call.file].state = "complete")
        => \/ fs[call.file] = call.fs[call.file]
           \/ fs[Bak(call.file)] = call.fs[call.file]

\* C22: every removeEnv of an environment that has a file at its path leaves
\* no file at the path and, at path + ".bak", what was at the path; and a
\* readEnv of the environment that follows fails, whatever the read does.
C22_RemoveLeavesBackupOnly ==
    [][(RemoveEnv /\ Exists(fs, TheEnvPath)) =>
          /\ ~Exists(fs', TheEnvPath)
          /\ fs'[Bak(TheEnvPath)] = fs[TheEnvPath]
          /\ \A readOk \in BOOLEAN : readEnv(EnvName, fs', readOk).env = NilPtr]_vars

-----------------------------------------------------------------------------
(* Properties of readEnv and of the save / read pair, checked under        *)
(* SpecRead.                                                               *)

ReadFile == EnvPath(rd.name)

\* A readEnv has returned and no command has run since.
ReadNow == rd.called /\ rd.at = ncmd /\ pc = "idle"

ReadFails ==
    \/ Detect(ReadFile).m = Nil
    \/ ~Exists(fs, ReadFile)
    \/ ~rd.readOk
    \/ Unmarshal(fs[ReadFile]).err
    \/ UnmarshalObject(fs[ReadFile]).err
    \/ Decode(DeleteResources(UnmarshalObject(fs[ReadFile]).obj)).err

\* C11: a readEnv whose format is undetectable, whose file is absent or
\* unreadable, or whose typed, generic or validation decode fails returns
\* nil for all three results and reports an error; no read returns some of
\* its results without the others; a missing file is reported as an invalid
\* environment name, any other failed read of the file as an I/O error.
C11_ReadFailsWhole ==
    ReadNow =>
        /\ ReadFails => /\ rd.res.envfile = NilPtr
                        /\ rd.res.env = NilPtr
                        /\ rd.res.snap = NilPtr
                        /\ rd.res.diag # Nil
        /\ ~ReadFails => ~rd.res.envfile.nil /\ ~rd.res.env.nil
        /\ rd.res.envfile.nil <=> rd.res.env.nil
        /\ rd.res.env.nil => rd.res.snap.nil
        /\ ~Exists(fs, ReadFile) <=> rd.res.diag = ErrorInvalidEnvName
        /\ (Exists(fs, ReadFile) /\ ~rd.readOk) <=> rd.res.diag = ErrorIO

\* C11's case: the file read decodes into an envfile and fails validation.
C11_Witness ==
    /\ ReadNow /\ rd.readOk
    /\ fs[ReadFile] = Complete(ExtraField)
    /\ ~Unmarshal(fs[ReadFile]).err
    /\ rd.res = ReadFailed(ErrorCantReadDeployment)

\* A saveEnv(env, snap, "", true) returned true and a readEnv(env.Name)
\* that met no I/O error followed it, with no command between them.
SavedThenRead ==
    /\ ReadNow /\ rd.readOk
    /\ call.active /\ call.returned /\ ret
    /\ call.file0 = EmptyPath /\ call.existok
    /\ rd.name = call.env

C24_NilEnvHasDiagnostic ==
    rd.called =>
        /\ rd.res.env = NilPtr => (rd.res.diag # Nil /\ ~diagOk)
        /\ rd.res.diag = Nil => (~rd.res.env.nil /\ ~rd.res.envfile.nil)

\* A file that decodes but does not validate was read: no environment, and
\* the diagnostic that the deployment cannot be read.
C24_Witness ==
    /\ rd.called /\ rd.readOk
    /\ fs[TheEnvPath] \in {Complete(ExtraField), Complete(BadName)}
    /\ rd.res.env = NilPtr
    /\ rd.res.diag = ErrorCantReadDeployment
    /\ ~diagOk

-----------------------------------------------------------------------------
(* Properties of InspectChange, of the diff engine and of the rendering    *)
(* of diffs, checked under SpecDiff.                                       *)

\* props["name"]: the null value when the map has no such key.
NameOf(props) == IF "name" \in DOMAIN props THEN props["name"] ELSE PNull

InSeq(x, seq) == \E i \in 1..Len(seq) : seq[i] = x

\* C14: whenever a generated provider's InspectChange succeeds on olds and
\* news whose "name" properties differ, the Replaces it returns contain
\* "name", whatever the provider's ops.InspectChange reported.
C14_NameForcesReplace ==
    (resp.set /\ ~resp.r.err /\ NameOf(olds) # NameOf(news))
        => InSeq("name", resp.r.Replaces)

\* C14's case: the name changed, the ops reported nothing, and the Alarm
\* provider returned the name alone.
C14_Witness ==
    /\ resp.set /\ ~resp.r.err
    /\ resp.provider = "Alarm" /\ resp.more = <<>>
    /\ NameOf(olds) = PString("x") /\ NameOf(news) = PString("y")
    /\ resp.r.Replaces = <<"name">>

\* The lines of a rendered step that show a changed primitive value.
UpdateLines ==
    IF buf.set
    THEN {i \in 1..Len(buf.lines) : buf.lines[i].kind = "update"}
    ELSE {}

\* An update line is rendered as having forced the replacement when it has
\* the colors of a delete and a create instead of the color of an update.
ShownAsCause(line) == line.color \in {OpDelete, OpCreate}

\* C16: in a rendered object diff, the lines of an Updates entry are shown as
\* having forced replacement only if the entry's own top-level key (the key
\* the line is at or nested in) is in the replacement causes handed to the
\* printer; the lines of every other Updates entry are shown as an ordinary
\* update, whatever the other keys of the diff are.
C16_OnlyOwnKeyShownAsCause ==
    \A i \in UpdateLines :
        ShownAsCause(buf.lines[i]) => InSeq(buf.lines[i].path[1], buf.replaces)

\* The paths of the lines of a rendered step that show an unchanged property
\* of a diff.
SameLines ==
    IF buf.set
    THEN {i \in 1..Len(buf.lines) : buf.lines[i].kind = "same"}
    ELSE {}

\* The Sames entries of the diff of olds and news that have a value to show,
\* each as the path of its key: those of the diff itself, and those of the
\* object diffs of its Updates.
ShownSames ==
    LET d == Diff(olds, news)
    IN  IF d.nil THEN {}
        ELSE {<<key>> : key \in {k \in DOMAIN d.v.Sames : d.v.Sames[k] # PNull}}
             \cup
             UNION {LET od == d.v.Updates[key].Object
                    IN  IF od.nil THEN {}
                        ELSE {<<key, sub>> :
                                sub \in {k \in DOMAIN od.v.Sames :
                                            od.v.Sames[k] # PNull}}
                    : key \in DOMAIN d.v.Updates}

\* C17 as claimed: the printers take one switch, summary, which is off unless
\* it is asked for; a step rendered with it off, the caller having opted
\* into nothing, shows no Sames entry.
C17_SamesOnlyWhenOptedIn ==
    (buf.set /\ ~buf.summary) => SameLines = {}

\* C17 as the code has it: the diff of a step with both resources, rendered
\* without the summary switch, shows every Sames entry whose value is not
\* null, and only those as unchanged; with the summary switch the rendering
\* is the line of the URN alone, so no property is shown at all.
C17_SamesShownUnlessSummary ==
    (buf.set /\ buf.hasOld /\ buf.hasNew) =>
        IF buf.summary
        THEN Len(buf.lines) = 1 /\ buf.lines[1].kind = "urn"
        ELSE {buf.lines[i].path : i \in SameLines} = ShownSames

\* A changed name beside an unchanged reference, which is shown.
C17_Witness ==
    /\ buf.set /\ buf.hasOld /\ buf.hasNew /\ ~buf.summary
    /\ \E i \in UpdateLines : buf.lines[i].path = <<"name">>
    /\ \E i \in SameLines :
          /\ buf.lines[i].path = <<"vpc">>
          /\ buf.lines[i].v = PResource("urn:vpc")
    /\ olds["vpc"] = news["vpc"]

\* The keys of olds and news, and those of them that only one of the maps
\* has, and has with the null value.
AllKeys == DOMAIN olds \cup DOMAIN news

NullOnlyKeys ==
    {key \in DOMAIN olds \ DOMAIN news : olds[key] = PNull}
        \cup {key \in DOMAIN news \ DOMAIN olds : news[key] = PNull}

\* The number of the four maps of a diff that have the key.
Occurrences(d, key) ==
    Cardinality({which \in {"Adds", "Deletes", "Updates", "Sames"} :
                    key \in DOMAIN d[which]})

\* C18 as claimed: every key of olds or of news, the keys that are null on
\* the one side that has them included, is in exactly one of Adds, Deletes,
\* Updates and Sames of a diff that is not nil.
C18_PartitionOfAllKeys ==
    (diff.set /\ ~diff.d.nil) =>
        \A key \in AllKeys : Occurrences(diff.d.v, key) = 1

\* C18 as the diff engine has it: the four maps of a diff that is not nil
\* have keys of olds or news only, every such key is in exactly one of them
\* unless only one side has it and has it as null, and such a key is in
\* none of them.
C18_PartitionButNullOnly ==
    (diff.set /\ ~diff.d.nil) =>
        /\ \A which \in {"Adds", "Deletes", "Updates", "Sames"} :
              DOMAIN diff.d.v[which] \subseteq AllKeys
        /\ \A key \in AllKeys \ NullOnlyKeys : Occurrences(diff.d.v, key) = 1
        /\ \A key \in NullOnlyKeys : Occurrences(diff.d.v, key) = 0

\* A diff with an update, a same, and a key that is null in olds alone.
C18_Witness ==
    /\ diff.set /\ ~diff.d.nil
    /\ "a" \in NullOnlyKeys /\ "a" \in DOMAIN olds
    /\ "name" \in DOMAIN diff.d.v.Updates
    /\ "vpc" \in DOMAIN diff.d.v.Sames

\* C19: a key that one map has with the null value and the other map does
\* not have is in neither Adds nor Deletes, and the diff of the map {a: null}
\* and the empty map is nil in both directions.
C19_NullVsAbsentNotReported ==
    diff.set =>
        /\ ~diff.d.nil =>
              \A key \in NullOnlyKeys :
                  key \notin DOMAIN diff.d.v.Adds \cup DOMAIN diff.d.v.Deletes
        /\ (olds = [key \in {"a"} |-> PNull] /\ news = NoProps) => diff.d.nil
        /\ (olds = NoProps /\ news = [key \in {"a"} |-> PNull]) => diff.d.nil

\* Diff({}, {a: null}) was computed and is nil.
C19_Witness ==
    /\ diff.set
    /\ olds = NoProps
    /\ news = [key \in {"a"} |-> PNull]
    /\ diff.d = NilPtr

\* C20: when olds and news are the same map, their Diff is nil; printStep of
\* a step with both resources then prints, after the URN, the plain object:
\* one unmarked line for each key of the map that is not null; and a
\* successful InspectChange returns what the provider's ops returned, with
\* no key of its own.
C20_NoDiffAgainstSelf ==
    olds = news =>
        /\ diff.set => diff.d = NilPtr
        /\ (buf.set /\ buf.hasOld /\ buf.hasNew /\ ~buf.summary) =>
              LET props == Tail(buf.lines)
              IN  /\ \A i \in 1..Len(props) :
                        /\ props[i].kind = "property"
                        /\ props[i].mark = ""
                        /\ Len(props[i].path) = 1
                        /\ props[i].v = news[props[i].path[1]]
                  /\ {props[i].path[1] : i \in 1..Len(props)}
                        = {key \in DOMAIN news : news[key] # PNull}
                  /\ Len(props) = Cardinality({key \in DOMAIN news :
                                                 news[key] # PNull})
        /\ (resp.set /\ ~resp.r.err) => resp.r.Replaces = resp.more

\* InspectChange of the gateway attachment on the same three properties,
\* the ops reporting "a": "a" alone is returned.
C20_Witness ==
    /\ olds = news
    /\ DOMAIN olds = {"a", "name", "vpc"}
    /\ NameOf(olds) = PString("x")
    /\ resp.set /\ ~resp.r.err
    /\ resp.provider = "VPCGatewayAttachment"
    /\ resp.more = <<"a">>
    /\ resp.r.Replaces = <<"a">>

\* olds and news both have an array under "a", and the arrays differ.
ArraysDiffer ==
    /\ "a" \in DOMAIN olds \cap DOMAIN news
    /\ olds["a"].t = "array" /\ news["a"].t = "array"
    /\ olds["a"] # news["a"]

\* The maps of an array diff that have the index.
MapsWith(a, i) ==
    {which \in {"Adds", "Deletes", "Updates", "Sames"} : i \in DOMAIN a[which]}

OneTwoThree == <<PNumber("1"), PNumber("2"), PNumber("3")>>

NineTwoThree == <<PNumber("9"), PNumber("2"), PNumber("3")>>

\* C21: the diff of two arrays that differ is made index by index: an index
\* below both lengths is in Updates alone when the two elements differ and
\* in Sames alone when they do not; an index of the longer array alone is in
\* Adds alone when the new array is the longer and in Deletes alone when the
\* old one is; Len is the longer length and no map has an index from Len on;
\* and the diff of [1,2,3] and [9,2,3] has Updates[0] and no add or delete.
C21_ArrayDiffPositional ==
    (diff.set /\ ArraysDiffer) =>
        LET old == olds["a"].arr
            new == news["a"].arr
            min == IF Len(old) < Len(new) THEN Len(old) ELSE Len(new)
            max == IF Len(old) < Len(new) THEN Len(new) ELSE Len(old)
        IN  /\ ~diff.d.nil
            /\ "a" \in DOMAIN diff.d.v.Updates
            /\ ~diff.d.v.Updates["a"].Array.nil
            /\ LET a == diff.d.v.Updates["a"].Array.v
               IN  /\ \A i \in 0..(min - 1) :
                         MapsWith(a, i) = IF old[i + 1] # new[i + 1]
                                          THEN {"Updates"} ELSE {"Sames"}
                   /\ \A i \in min..(max - 1) :
                         MapsWith(a, i) = IF Len(new) > Len(old)
                                          THEN {"Adds"} ELSE {"Deletes"}
                   /\ ArrayLen(a) = max
                   /\ \A which \in {"Adds", "Deletes", "Updates", "Sames"} :
                         DOMAIN a[which] \subseteq 0..(max - 1)
                   /\ (old = OneTwoThree /\ new = NineTwoThree) =>
                         /\ DOMAIN a.Updates = {0}
                         /\ DOMAIN a.Adds = {} /\ DOMAIN a.Deletes = {}

\* Diff([1,2,3], [9,2,3]) was computed: index 0 updated from 1 to 9, indexes
\* 1 and 2 the same.
C21_Witness ==
    /\ diff.set /\ ArraysDiffer
    /\ olds["a"].arr = OneTwoThree /\ news["a"].arr = NineTwoThree
    /\ LET a == diff.d.v.Updates["a"].Array.v
       IN  /\ DOMAIN a.Updates = {0}
           /\ a.Updates[0].Old = PNumber("1") /\ a.Updates[0].New = PNumber("9")
           /\ DOMAIN a.Sames = {1, 2}

-----------------------------------------------------------------------------
(* Properties of InspectChange, checked under SpecInspect.                 *)

\* The property was added, deleted or updated between olds and news: only
\* one of them has it, and not as null, or both have it and with values that
\* differ.
PropertyChanged(key) ==
    \/ key \in DOMAIN news \ DOMAIN olds /\ news[key] # PNull
    \/ key \in DOMAIN olds \ DOMAIN news /\ olds[key] # PNull
    \/ key \in DOMAIN olds \cap DOMAIN news /\ olds[key] # news[key]

\* The replace-on-change keys of the generated providers, in the order of
\* their declaration.
DeclaredKeys(provider) ==
    CASE provider = "VPCGatewayAttachment" -> <<"name", "vpc", "internetGateway">>
      [] provider = "ActionTarget"         -> <<"name", "topicName">>
      [] provider = "Alarm"                -> <<"name", "alarmName">>
      [] OTHER                             -> <<"name">>

\* C23: a successful InspectChange returns as Replaces the declared keys of
\* its provider that changed, in the order of their declaration, followed
\* by the keys that ops.InspectChange returned, as they were returned; so no
\* other key is among them.
C23_ReplacesAreDeclaredThenOps ==
    (resp.set /\ ~resp.r.err) =>
        /\ resp.r.Replaces =
              SelectSeq(DeclaredKeys(resp.provider), PropertyChanged) \o resp.more
        /\ \A i \in 1..Len(resp.r.Replaces) :
              \/ InSeq(resp.r.Replaces[i], DeclaredKeys(resp.provider))
              \/ InSeq(resp.r.Replaces[i], resp.more)

\* The gateway attachment with its gateway and its vpc changed and its name
\* not, the ops reporting the vpc and the name.
C23_Witness ==
    /\ resp.set /\ ~resp.r.err
    /\ resp.provider = "VPCGatewayAttachment"
    /\ resp.more = <<"vpc", "name">>
    /\ PropertyChanged("internetGateway") /\ PropertyChanged("vpc")
    /\ ~PropertyChanged("name") /\ "name" \in DOMAIN news
    /\ resp.r.Replaces = <<"vpc", "internetGateway", "vpc", "name">>

-----------------------------------------------------------------------------
(* Properties of Check, checked under SpecCheck.                           *)

\* The failures that decoding the request's properties produced.
DecodeFailures == IF resp.decerr.nil THEN {} ELSE resp.decerr.v

\* C28: Check calls ops.Check exactly when the decoding produced no failure;
\* the call fails, and then without a response, exactly when ops.Check was
\* called and returned an error; otherwise the response carries the decode
\* failures when there are any and else the failures that the ops reported.
C28_CheckAsksOpsOnlyAfterCleanDecode ==
    resp.set =>
        /\ resp.r.opsCalled <=> DecodeFailures = {}
        /\ resp.r.err <=> (resp.r.opsCalled /\ resp.opsErr)
        /\ resp.r.err => resp.r.response = NilPtr
        /\ ~resp.r.err =>
              /\ ~resp.r.response.nil
              /\ resp.r.response.v.Failures =
                    IF DecodeFailures # {} THEN DecodeFailures ELSE resp.failures

\* The name did not decode; the ops, which would have failed, were not asked,
\* and the call succeeded with the failure of the name in its response.
C28_Witness ==
    /\ resp.set
    /\ DecodeFailures = {"name"}
    /\ resp.opsErr /\ resp.failures = {"type"}
    /\ ~resp.r.opsCalled /\ ~resp.r.err
    /\ resp.r.response.v.Failures = {"name"}

-----------------------------------------------------------------------------
(* Properties of printSummary, checked under SpecSummary.                  *)

ReplaceSteps == {OpReplaceCreate, OpReplaceDelete}

RECURSIVE SumLines(_)
SumLines(lines) ==
    IF lines = <<>> THEN 0 ELSE Head(lines).n + SumLines(Tail(lines))

\* C15: the counts of the per-operation lines of a summary sum to the total
\* that its first line reports; unless showReplaceSteps is set, no line is
\* about a ReplaceCreate or ReplaceDelete step and the total is the sum of
\* the counts of the other operations, and when it is set the total is the
\* sum of all the counts.
C15_SummaryAddsUp ==
    buf.set =>
        LET total == Head(buf.lines)
            perOp == Tail(buf.lines)
            hidden == IF buf.showReplaceSteps THEN {} ELSE ReplaceSteps
        IN  /\ total.kind = "total"
            /\ \A i \in 1..Len(perOp) :
                  /\ perOp[i].kind = "op"
                  /\ perOp[i].op \notin hidden
                  /\ perOp[i].n = Count(counts, perOp[i].op)
            /\ SumLines(perOp) = total.n
            /\ total.n = SumCounts([op \in StepOpSet |-> Count(counts, op)],
                                    StepOpSet \ hidden)

\* Two creates, an update and a hidden replacement pair: three changes.
C15_Witness ==
    /\ buf.set
    /\ ~buf.showReplaceSteps
    /\ Count(counts, OpCreate) = 2
    /\ Count(counts, OpUpdate) = 1
    /\ Count(counts, OpReplaceCreate) = 1
    /\ Count(counts, OpReplaceDelete) = 1
    /\ Head(buf.lines).n = 3
    /\ Len(buf.lines) = 3

-----------------------------------------------------------------------------
(* Properties of the applyProgress, checked under SpecProgress.            *)

\* C1: after any sequence of Before and After callbacks, MaybeCorrupt is
\* true exactly when some After so far reported a failed step (err non-nil)
\* in state Unknown; and no callback ever resets it from true to false.
C1_MaybeCorruptSticky ==
    /\ [](prog.MaybeCorrupt <=> cb.unknownFail)
    /\ [][prog.MaybeCorrupt => prog'.MaybeCorrupt]_vars

\* C1's case: a Before, a success and two failures were called back, one of
\* the failures in state Unknown.
C1_Witness ==
    /\ prog.MaybeCorrupt
    /\ cb.befores >= 1 /\ cb.ok >= 1 /\ cb.afters - cb.ok >= 2

\* C8 (as claimed): Steps is the number of After callbacks made, and
\* Ops[op] the number of those whose step had operation op.
C8_CountsExecuted ==
    /\ prog.Steps = cb.afters
    /\ \A op \in StepOpSet : prog.Ops[op] = cb.byOp[op]

\* C8 (amended): Steps is the number of After callbacks that reported no
\* error, and Ops[op] the number of those whose step had operation op; a
\* failed step is counted in neither.
C8_CountsSucceeded ==
    /\ prog.Steps = cb.ok
    /\ \A op \in StepOpSet : prog.Ops[op] = cb.okByOp[op]

\* C8's case: successes of two different operations and a failure.
C8_Witness ==
    /\ cb.afters > cb.ok
    /\ prog.Steps = 2
    /\ prog.Ops[OpCreate] = 1 /\ prog.Ops[OpReplaceDelete] = 1
    /\ cb.byOp[OpCreate] = 2

\* C25: at all times Steps is the sum of the values of Ops and the number of
\* After callbacks whose err was nil; an After callback with a non-nil err
\* changes neither Steps nor Ops; and a Before callback changes none of
\* Steps, Ops and MaybeCorrupt.
C25_StepsCountSuccesses ==
    /\ [](/\ prog.Steps = SumCounts(prog.Ops, DOMAIN prog.Ops)
          /\ prog.Steps = cb.ok)
    /\ [][(cb'.afters = cb.afters + 1 /\ cb'.ok = cb.ok) =>
              (prog'.Steps = prog.Steps /\ prog'.Ops = prog.Ops)]_vars
    /\ [][cb'.befores = cb.befores + 1 =>
              /\ prog'.Steps = prog.Steps
              /\ prog'.Ops = prog.Ops
              /\ prog'.MaybeCorrupt = prog.MaybeCorrupt]_vars

\* Three successes of the same operation, after a Before.
C25_Witness ==
    /\ cb.befores = 1 /\ cb.afters = 3 /\ cb.ok = 3
    /\ prog.Steps = 3
    /\ prog.Ops[OpUpdate] = 3

-----------------------------------------------------------------------------
(* Properties of the apply command, checked under SpecApply.               *)

InPlanApply == pc \in {"apply_before", "apply_call", "apply_after"}

\* Plan.Apply has returned to apply.
Returned == ap.planned /\ ~ap.dryRun /\ pc \notin {"start"} /\ ~InPlanApply

IsCall(e) == e.kind = "call"

Calls == SelectSeq(trace, IsCall)

\* C6: in a non-dry-run apply with a plan, no saveEnv is invoked while
\* Plan.Apply runs; once it has returned saveEnv is invoked exactly once
\* (apply never stops at its assertion instead), with the checkpoint
\* Apply returned, the output option and existok = true, whatever the error
\* Apply returned and whatever MaybeCorrupt is.
C6_SavedOnceAfterApply ==
    /\ pc # "panic"
    /\ (ap.planned /\ ~ap.dryRun /\ (InPlanApply \/ pc = "apply_done"))
          => saves = <<>> /\ ~call.active
    /\ (Returned /\ pc # "apply_done")
          => /\ Len(saves) = 1
             /\ saves[1] = [snap |-> ap.checkpoint, file0 |-> ap.output,
                            existok |-> TRUE, at |-> Len(trace)]
             /\ call.active /\ call.existok /\ call.file0 = ap.output
             /\ (call.marshalOk /\ Detect(call.file).m # Nil)
                   => call.b = Marshal(SerializeEnvfile(EnvName, ap.checkpoint))
             /\ (trace # <<>> => trace[Len(trace)].kind = "after")

\* C6's case: Apply returned an error with MaybeCorrupt set, and the save
\* that followed succeeded.
C6_Witness ==
    /\ Returned /\ pc = "idle"
    /\ ap.err /\ prog.MaybeCorrupt
    /\ Len(saves) = 1 /\ ret
    /\ fs[TheEnvPath] = Complete(Marshal(SerializeEnvfile(EnvName, ap.checkpoint)))

\* The results of steps 1 to 3 of the plan, the third in state Unknown.
ThreeOfFive ==
    [i \in 1..3 |-> Res(i, plan[i], IF i = 3 THEN StateUnknown ELSE StateOK)]

Step3Unknown ==
    /\ Returned
    /\ Len(plan) = 5
    /\ ap.idx = 3 /\ ap.err /\ ap.state = StateUnknown

\* C7: after a 5-step plan whose step 3 ended with a failure of state
\* Unknown, MaybeCorrupt is true, no provider call was made for steps 4 and
\* 5, and the checkpoint (the one handed to saveEnv, and written by it)
\* holds the results of steps 1 to 3 only.
C7_Step3Of5Unknown ==
    Step3Unknown
        => /\ prog.MaybeCorrupt
           /\ ap.checkpoint = ThreeOfFive
           /\ Len(Calls) = 3
           /\ (saves # <<>> => saves[1].snap = ThreeOfFive)
           /\ (InSave => sv.b = Marshal(SerializeEnvfile(EnvName, ThreeOfFive)))

\* C7's case: such a plan was applied and its checkpoint saved.
C7_Witness ==
    /\ Step3Unknown
    /\ pc = "idle" /\ ret
    /\ fs[TheEnvPath] = Complete(Marshal(SerializeEnvfile(EnvName, ThreeOfFive)))
    /\ plan[4] # plan[3]

\* C9: every provider call is immediately preceded by the Before of its
\* step and immediately followed by the After of its step, nothing coming
\* between; no Before or After happens twice for a step; and once Plan.Apply
\* has returned every step it reached has had all three.
C9_BeforeCallAfter ==
    /\ \A k \in 1..Len(trace) :
          /\ trace[k].kind = "before"
                => (k < Len(trace)
                      => trace[k + 1] = [trace[k] EXCEPT !.kind = "call"])
          /\ trace[k].kind = "call"
                => /\ k > 1
                   /\ trace[k - 1] = [trace[k] EXCEPT !.kind = "before"]
                   /\ k < Len(trace)
                         => trace[k + 1] = [trace[k] EXCEPT !.kind = "after"]
          /\ trace[k].kind = "after"
                => /\ k > 1
                   /\ trace[k - 1] = [trace[k] EXCEPT !.kind = "call"]
    /\ \A j, k \in 1..Len(trace) :
          (j # k /\ trace[j].kind = trace[k].kind) => trace[j].idx # trace[k].idx
    /\ Returned
          => /\ Len(trace) = 3 * Len(Calls)
             /\ (~ap.err => Len(Calls) = Len(plan))

\* C9's case: a plan of five steps was applied to its end.
C9_Witness ==
    /\ Returned /\ ~ap.err
    /\ Len(plan) = 5 /\ Len(trace) = 15

\* C10: the k-th provider call is for the k-th step of the plan (its index
\* and its operation); the calls made are a prefix of the plan, the whole
\* plan when no step failed and the steps up to the failed one otherwise.
C10_PlanOrder ==
    /\ Len(Calls) <= Len(plan)
    /\ \A k \in 1..Len(Calls) : Calls[k].idx = k /\ Calls[k].op = plan[k]
    /\ Returned
          => Len(Calls) = IF ap.err THEN ap.idx ELSE Len(plan)

\* C10's case: five provider calls for a plan of three different operations.
C10_Witness ==
    /\ Len(Calls) = 5
    /\ plan[1] = OpReplaceCreate /\ plan[2] = OpCreate /\ plan[5] = OpUpdate
    /\ pc = "apply_done"


\* The apply is a dry run of a plan.
DryRun == ap.planned /\ ap.dryRun

\* C26: a dry run never calls Before or After and changes no counter; with
\* the output option empty or "-" it calls no saveEnv and no file or
\* directory ever changes; with any other output it calls saveEnv once,
\* with the snapshot the plan aims at and the output path, no file but the
\* one at that path and its .bak ever changes, and when that save returns
\* true the file at the path holds that snapshot.
C26_DryRunOnlySavesToOutput ==
    /\ [](DryRun =>
            /\ trace = <<>> /\ prog = newProgress /\ cb = NoTally
            /\ ap.output \in {EmptyPath, DashPath} =>
                  (saves = <<>> /\ ~call.active /\ pc = "idle")
            /\ ap.output \notin {EmptyPath, DashPath} =>
                  /\ saves = <<[snap |-> NewSnapshot(plan), file0 |-> ap.output,
                                existok |-> TRUE, at |-> 0]>>
                  /\ (call.returned /\ ret) =>
                        fs[ap.output] = Complete(Marshal(
                            SerializeEnvfile(EnvName, NewSnapshot(plan)))))
    /\ [][(ap'.planned /\ ap'.dryRun) =>
              /\ ap'.output \in {EmptyPath, DashPath} => (fs' = fs /\ dirs' = dirs)
              /\ \A x \in Files \ {ap'.output, Bak(ap'.output)} : fs'[x] = fs[x]]_vars

\* A dry run of a plan of two steps with an output path wrote the snapshot
\* of the two steps to that path and left the checkpoint where it was.
C26_Witness ==
    /\ DryRun /\ Len(plan) = 2
    /\ ap.output = OutJson
    /\ call.returned /\ ret
    /\ fs[OutJson] = Complete(Marshal(SerializeEnvfile(EnvName, NewSnapshot(plan))))
    /\ fs[TheEnvPath] = Complete(OldData)
    /\ pc = "idle"

-----------------------------------------------------------------------------
(* The Go program generator (pkg/codegen/go/gen_program.go).  A program is *)
(* a sequence of nodes in linearized order; node i is named Var(i).  What  *)
(* the lowering of a node's expressions yields (its temps, the array       *)
(* helper it registers) and what its expressions refer to are inputs.      *)
(* The generated code is kept as a sequence of statements: the variables   *)
(* on the left side, the operator, and the block the statement stands in   *)
(* (0 is the body of the function handed to pulumi.Run, i the body of the  *)
(* for statement of the ranged resource i).                                *)

MaxNodes == 2       \* longest program generated
MaxRuns  == 2       \* runs of GenerateProgram on one program

\* An identifier of the generated code: what it is and the number that makes
\* it unique (the node's position for a node's variable and its temps).
Ident(name, i) == [name |-> name, i |-> i]

Var(i) == Ident("var", i)
Blank  == Ident("_", 0)
Err    == Ident("err", 0)
ResVar == Ident("__res", 0)

Mods == {"ec2", "s3"}

ArrayHelpers == {"", "stringArray", "intArray"}

TempKinds == {"none", "jsonTemp", "readDirTemp"}

Exprs == {"invoke", "call", "value"}

Resources ==
    [type : {"Resource"}, mod : Mods, range : BOOLEAN, temp : TempKinds,
     helper : ArrayHelpers, roots : SUBSET (1..MaxNodes)]

LocalVariables ==
    [type : {"LocalVariable"}, expr : Exprs, temp : TempKinds,
     roots : SUBSET (1..MaxNodes)]

OutputVariables ==
    [type : {"OutputVariable"}, temp : TempKinds, roots : SUBSET (1..MaxNodes)]

Nodes == Resources \cup LocalVariables \cup OutputVariables

Programs == UNION {[1..n -> Nodes] : n \in 1..MaxNodes}

Stmt(lhs, op, block) == [lhs |-> lhs, op |-> op, block |-> block]

\* The import paths the model knows, in the order of strings.
ImportOrder ==
    <<<<"encoding/json">>, <<"io/ioutil">>,
      <<"github.com/pulumi/pulumi-", "aws", "/sdk", "/v2", "/go/", "aws", "/", "ec2">>,
      <<"github.com/pulumi/pulumi-", "aws", "/sdk", "/v2", "/go/", "aws", "/", "s3">>,
      <<"github.com/pulumi/pulumi/sdk/v2/go/pulumi">>>>

SortedValues(set) == SelectSeq(ImportOrder, LAMBDA imp : imp \in set)

getVersionPath(version) == IF version > 1 THEN "/v2" ELSE ""

getPulumiImport(pkg, vPath, mod) ==
    <<"github.com/pulumi/pulumi-", pkg, "/sdk", vPath, "/go/", pkg, "/", mod>>

genFunctionPackages(temp) ==
    CASE temp = "jsonTemp"    -> {<<"encoding/json">>}
      [] temp = "readDirTemp" -> {<<"io/ioutil">>}
      [] OTHER                -> {}

\* collectImports: the provider package of every resource, the standard
\* packages of the functions called.
collectImports(program, stdImports, pulumiImports) ==
    [std    |-> stdImports \cup
                UNION {genFunctionPackages(program[i].temp) : i \in DOMAIN program},
     pulumi |-> pulumiImports \cup
                {getPulumiImport("aws", getVersionPath(2), program[i].mod) :
                    i \in {j \in DOMAIN program : program[j].type = "Resource"}}]

RECURSIVE collectScopeRoots(_, _)
collectScopeRoots(program, i) ==
    IF i = 0 THEN {}
    ELSE collectScopeRoots(program, i - 1) \cup {Var(r) : r \in program[i].roots}

\* genTemps with a single return value: a JSON temp and a readDir temp both
\* declare err with ":=" next to a fresh variable, and neither touches
\* isErrAssigned.
genTemps(temp, i) ==
    CASE temp = "jsonTemp" ->
            <<Stmt(<<Ident("tmpJSON", i), Err>>, ":=", 0),
              Stmt(<<Ident("json", i)>>, ":=", 0)>>
      [] temp = "readDirTemp" ->
            <<Stmt(<<Ident("files", i), Err>>, ":=", 0),
              Stmt(<<Ident("fileNames", i)>>, ":=", 0)>>
      [] OTHER -> <<>>

\* The instantiate closure of genResource.
instantiate(g, varName, block) ==
    IF varName \in g.scopeTraversalRoots \/ varName = ResVar
    THEN Stmt(<<varName, Err>>, ":=", block)
    ELSE Stmt(<<Blank, Err>>, IF g.isErrAssigned THEN "=" ELSE ":=", block)

genResource(g, w, i, r) ==
    [g |-> [g EXCEPT !.isErrAssigned = TRUE,
                     !.arrayHelpers = @ \cup ({r.helper} \ {""})],
     w |-> w \o genTemps(r.temp, i) \o
           (IF r.range
            THEN <<Stmt(<<Var(i)>>, "var", 0),
                   instantiate(g, ResVar, i),
                   Stmt(<<Var(i)>>, "=", i)>>
            ELSE <<instantiate(g, Var(i), 0)>>)]

genOutputAssignment(g, w, i, v) ==
    [g |-> g, w |-> w \o genTemps(v.temp, i) \o <<Stmt(<<>>, "Export", 0)>>]

genLocalVariable(g, w, i, v) ==
    LET used == Var(i) \in g.scopeTraversalRoots
        name == IF used THEN Var(i) ELSE Blank
        assignment == IF ~used /\ g.isErrAssigned THEN "=" ELSE ":="
    IN  CASE v.expr = "invoke" ->
                [g |-> [g EXCEPT !.isErrAssigned = TRUE],
                 w |-> w \o genTemps(v.temp, i) \o
                       <<Stmt(<<name, Err>>, assignment, 0)>>]
          [] v.expr = "call" ->
                [g |-> g, w |-> w \o genTemps(v.temp, i)]
          [] OTHER ->
                [g |-> g,
                 w |-> w \o genTemps(v.temp, i) \o <<Stmt(<<name>>, ":=", 0)>>]

genNode(g, w, i, n) ==
    CASE n.type = "Resource"       -> genResource(g, w, i, n)
      [] n.type = "OutputVariable" -> genOutputAssignment(g, w, i, n)
      [] n.type = "LocalVariable"  -> genLocalVariable(g, w, i, n)

\* The orders in which a range over a Go map can visit its keys.
MapOrders(keys) ==
    {order \in [1..Cardinality(keys) -> keys] :
        \A i, j \in DOMAIN order : i # j => order[i] # order[j]}

\* genPreamble: the standard imports sorted, the SDK, the provider
\* imports sorted.
genPreamble(program, stdImports, pulumiImports) ==
    LET imports == collectImports(program, stdImports, pulumiImports)
    IN  [std    |-> SortedValues(imports.std),
         pulumi |-> <<<<"github.com/pulumi/pulumi/sdk/v2/go/pulumi">>>> \o
                    SortedValues(imports.pulumi)]

\* gofmt.Source sorts the import specs of every run of lines without a
\* blank line between them, and changes no statement.
gofmtSource(index) ==
    [index EXCEPT !.std = SortedValues({@[k] : k \in DOMAIN @}),
                  !.pulumi = SortedValues({@[k] : k \in DOMAIN @})]

NotGenerating(program) ==
    [set |-> TRUE, program |-> program, pc |-> "idle", run |-> 0, i |-> 0, w |-> <<>>,
     g |-> [isErrAssigned |-> FALSE, scopeTraversalRoots |-> {},
            arrayHelpers |-> {}],
     imports |-> [std |-> {}, pulumi |-> {}], files |-> <<>>]

InitGen ==
    /\ NoDeployment
    /\ rd = NoRead
    /\ olds = NoProps /\ news = NoProps
    /\ diff = Unset /\ resp = Unset /\ buf = Unset
    /\ counts = NoCounts
    /\ \E program \in Programs : gen = NotGenerating(program)

genVars == <<deployVars, rd, olds, news, diff, resp, buf, counts>>

\* GenerateProgram up to its loop over the nodes: a new generator, the
\* imports collected, the scope roots collected.
GenerateProgramBegin ==
    /\ gen.pc \in {"idle", "done"}
    /\ gen.run < MaxRuns
    /\ gen' = [gen EXCEPT
                  !.pc = "nodes", !.run = @ + 1, !.i = 0, !.w = <<>>,
                  !.g = [isErrAssigned |-> FALSE,
                         scopeTraversalRoots |->
                            collectScopeRoots(gen.program, Len(gen.program)),
                         arrayHelpers |-> {}],
                  !.imports = collectImports(gen.program, {}, {})]
    /\ UNCHANGED genVars

\* One round of the loop that generates the nodes.
GenNode ==
    /\ gen.pc = "nodes"
    /\ gen.i < Len(gen.program)
    /\ LET i == gen.i + 1
           r == genNode(gen.g, gen.w, i, gen.program[i])
       IN  gen' = [gen EXCEPT !.i = i, !.g = r.g, !.w = r.w]
    /\ UNCHANGED genVars

\* The rest of GenerateProgram: the postamble with the helper methods in
\* the order the range over g.arrayHelpers yields, the preamble, gofmt.
GenerateProgramEnd ==
    /\ gen.pc = "nodes"
    /\ gen.i = Len(gen.program)
    /\ \E order \in MapOrders(gen.g.arrayHelpers) :
          LET preamble == genPreamble(gen.program, gen.imports.std,
                                      gen.imports.pulumi)
              index == [std |-> preamble.std, pulumi |-> preamble.pulumi,
                        body |-> gen.w, helpers |-> order]
          IN  gen' = [gen EXCEPT !.pc = "done",
                                 !.files = Append(@, gofmtSource(index))]
    /\ UNCHANGED genVars

NextGen ==
    \/ GenerateProgramBegin
    \/ GenNode
    \/ GenerateProgramEnd

SpecGen == InitGen /\ [][NextGen]_vars

-----------------------------------------------------------------------------
(* Properties of the program generator, checked under SpecGen.             *)

DeclaresErr(s) == s.op = ":=" /\ \E k \in DOMAIN s.lhs : s.lhs[k] = Err

\* A declaration made in block b can be used in block c.
Visible(b, c) == b = 0 \/ b = c

ErrDeclaredBefore(w, k) ==
    \E j \in 1..(k - 1) : DeclaresErr(w[j]) /\ Visible(w[j].block, w[k].block)

\* "_, err := ..." and "_ := ...": nothing but the blank and err on the
\* left side of ":=".
NoOtherVariable(s) ==
    s.op = ":=" /\ \A k \in DOMAIN s.lhs : s.lhs[k] \in {Blank, Err}

\* C29: in the code generated so far, every "_, err = ..." comes after a
\* ":=" declaration of err in its own block or in the function body, and no
\* "_, err := ..." or "_ := ..." stands where err is already declared.
C29_ErrBoundConsistently ==
    \A k \in DOMAIN gen.w :
        /\ (gen.w[k].op = "=" /\ gen.w[k].lhs = <<Blank, Err>>) =>
              ErrDeclaredBefore(gen.w, k)
        /\ NoOtherVariable(gen.w[k]) => ~ErrDeclaredBefore(gen.w, k)

IsSorted(imports) ==
    \E set \in SUBSET {ImportOrder[k] : k \in DOMAIN ImportOrder} :
        imports = SortedValues(set)

\* C30: every run of GenerateProgram on the program produced the same
\* main.go, with its imports sorted and its helper methods in the same
\* order.
C30_GenerateProgramDeterministic ==
    /\ \A i, j \in DOMAIN gen.files : gen.files[i] = gen.files[j]
    /\ \A i \in DOMAIN gen.files :
          IsSorted(gen.files[i].std) /\ IsSorted(gen.files[i].pulumi)

=============================================================================
